---- MODULE Spec2Model ----
(***************************************************************************)
(* Verification model of tex3patch (src/tex3patch/le.py, patch.py).        *)
(*                                                                         *)
(* Byte buffers are sequences of naturals in 0..255.  Python indexes from  *)
(* 0; the helpers At and Slice translate to the 1-based sequences of TLA+. *)
(* A function that can raise returns a record with an ok field.            *)
(* TLC integers are 32-bit signed: a dword v >= 2^31 is represented by its *)
(* two's complement reading v - 2^32, on which to_uint32_le and            *)
(* from_uint32_le are exact inverses.                                      *)
(***************************************************************************)
EXTENDS Integers, Sequences, FiniteSets, TLC

VARIABLES
    mode,        \* "codec", "find", "engine", "patch", "locate" or "detect"
    buffer,      \* codec: the fixup record byte stream under test
    decoded,     \* codec: result of fixups_decode(buffer)
    encoded,     \* codec: result of fixups_encode(decoded.items)
    stage,       \* codec: "build", "decoded", "encoded"
    fdata,       \* find: the page buffer searched
    fpattern,    \* find: the pattern searched for
    fdelta,      \* find: the offset argument of find_offset
    fcall,       \* find: "none", "find_offset" or "find_variable" once called
    fres,        \* find: what the call returned or that it raised
    pc,          \* patch(): "apply", "error", ...: where the run stands
    le_header,   \* patch(): the LE header fields
    fixup_records, \* patch(): per page, the list of fixup records
    page_data,   \* patch(): the mutable copy of the data pages
    CODE_PATCHES,  \* patch(): list of [code, offset]
    DATA_PATCHES,  \* patch(): list of [code, offset]
    napplied,    \* patch(): code patches applied so far (loop index)
    ndata,       \* patch(): data patches applied so far (loop index)
    f,           \* patch(): the bytes of the input file
    args,        \* patch(): [fix_speed, mouselook, invert_y]
    grep_result, \* patch(): per search, the matches utils.grep finds in the pages
    mz_off,      \* patch(): offset of the DOS stub that holds the LE
    le_off,      \* patch(): offset of the LE header
    game,        \* patch(): the title detect_version returned (name)
    env,         \* patch(): the offsets and variables resolved so far (locals)
    out_open,    \* patch(): TRUE once open(output, "wb") has run
    out          \* patch(): the bytes written to the output file

codecVars == <<buffer, decoded, encoded, stage>>

findVars == <<fdata, fpattern, fdelta, fcall, fres>>

patchVars == <<pc, le_header, fixup_records, page_data, CODE_PATCHES,
               DATA_PATCHES, napplied, ndata, f, args, grep_result, mz_off,
               le_off, game, env, out_open, out>>

vars == <<mode, codecVars, findVars, patchVars>>

----------------------------------------------------------------------------
(* Bounds                                                                  *)

MaxRecords == 2

MaxData == 10

NumPages == 3

----------------------------------------------------------------------------
(* The variables of a development that is not running keep these values.   *)

CodecIdle ==
    /\ buffer = <<>>
    /\ decoded = [ok |-> TRUE, items |-> <<>>]
    /\ encoded = [ok |-> TRUE, bytes |-> <<>>]
    /\ stage = "build"

FindIdle ==
    /\ fdata = <<>>
    /\ fpattern = <<>>
    /\ fdelta = 0
    /\ fcall = "none"
    /\ fres = [ok |-> FALSE, value |-> 0]

PatchIdle ==
    /\ pc = "idle"
    /\ le_header = [page_size |-> 0]
    /\ fixup_records = <<>>
    /\ page_data = <<>>
    /\ CODE_PATCHES = <<>>
    /\ DATA_PATCHES = <<>>
    /\ napplied = 0
    /\ ndata = 0
    /\ f = <<>>
    /\ args = [fix_speed |-> FALSE, mouselook |-> FALSE, invert_y |-> FALSE]
    /\ grep_result = <<>>
    /\ mz_off = 0
    /\ le_off = 0
    /\ game = ""
    /\ env = <<>>
    /\ out_open = FALSE
    /\ out = <<>>

----------------------------------------------------------------------------
(* Python sequence helpers                                                 *)

None == -1

Min(a, b) == IF a < b THEN a ELSE b

Max(a, b) == IF a > b THEN a ELSE b

At(buf, i) == buf[i + 1]

\* buf[a:b]: a negative index counts from the end, and both are clamped.
Slice(buf, a, b) ==
    LET lo == IF a < 0 THEN Max(a + Len(buf), 0) ELSE Min(a, Len(buf))
        hi == IF b < 0 THEN Max(b + Len(buf), 0) ELSE Min(b, Len(buf))
    IN  IF hi <= lo THEN <<>> ELSE SubSeq(buf, lo + 1, hi)

RECURSIVE Concat(_)
Concat(ss) == IF ss = <<>> THEN <<>> ELSE Head(ss) \o Concat(Tail(ss))

----------------------------------------------------------------------------
(* mrcrowbar.utils integer conversions                                     *)

to_uint16_le(v) == <<v % 256, (v \div 256) % 256>>

to_uint32_le(v) ==
    <<v % 256, (v \div 256) % 256, (v \div 65536) % 256, (v \div 16777216) % 256>>

from_uint16_le(b) == b[1] + 256 * b[2]
from_uint32_be(b) ==
    b[4] + 256 * b[3] + 65536 * b[2]
        + 16777216 * (IF b[1] >= 128 THEN b[1] - 256 ELSE b[1])

from_uint32_le(b) ==
    b[1] + 256 * b[2] + 65536 * b[3]
        + 16777216 * (IF b[4] >= 128 THEN b[4] - 256 ELSE b[4])
BitSetNonZero(v, bit) == v # 0

BitSet(v, bit) == (v \div bit) % 2 = 1

----------------------------------------------------------------------------
(* le.py: FixupTuple, fixups_encode, fixups_decode                         *)

\* born is a history tag that no code reads: 0 for a record decoded from the
\* input, n for a record synthesized while the n-th code patch was applied.
FixupTuple(id, src, flags, objnum, srcoff, data) ==
    [id |-> id, src |-> src, flags |-> flags, objnum |-> objnum,
     srcoff |-> srcoff, data |-> data, born |-> 0]

Born(r, n) == [r EXCEPT !.born = n]

Ids16 == {"fix_32off_16", "fix_16off_16", "fix_1632ptr_16"}

Ids32 == {"fix_32off_32", "fix_16off_32", "fix_1632ptr_32"}

EncodeObjnumDropShift(r) == <<r.objnum % 256>>

EncodeObjnum(r) == <<r.objnum + 1>>

EncodeRecord(r) ==
    <<r.src, r.flags>> \o to_uint16_le(r.srcoff) \o EncodeObjnum(r)
        \o (IF r.id \in Ids16 THEN to_uint16_le(r.data)
            ELSE IF r.id \in Ids32 THEN to_uint32_le(r.data)
            ELSE <<>>)

EncodableRecord(r) ==
    /\ r.id \in Ids16 \cup Ids32 \cup {"fix_16sel"}
    /\ r.src \in 0..255
    /\ r.flags \in 0..255
    /\ r.srcoff \in 0..65535
    /\ r.objnum + 1 \in 0..255
    /\ r.id \in Ids16 => r.data \in 0..65535

RECURSIVE EncodeAll(_)
EncodeAll(fixups) ==
    IF fixups = <<>> THEN <<>>
    ELSE EncodeRecord(Head(fixups)) \o EncodeAll(Tail(fixups))

fixups_encode_tail(fixups) ==
    IF \A i \in 1..Len(fixups) : EncodableRecord(fixups[i])
    THEN [ok |-> TRUE, bytes |-> EncodeAll(IF fixups = <<>> THEN <<>> ELSE Tail(fixups))]
    ELSE [ok |-> FALSE, bytes |-> <<>>]

fixups_encode(fixups) ==
    IF \A i \in 1..Len(fixups) : EncodableRecord(fixups[i])
    THEN [ok |-> TRUE, bytes |-> EncodeAll(fixups)]
    ELSE [ok |-> FALSE, bytes |-> <<>>]

IdFor(src, wide) ==
    CASE src = 7 -> IF wide THEN "fix_32off_32" ELSE "fix_32off_16"
      [] src = 5 -> IF wide THEN "fix_16off_32" ELSE "fix_16off_16"
      [] src = 6 -> IF wide THEN "fix_1632ptr_32" ELSE "fix_1632ptr_16"

DecodeFail == [ok |-> FALSE, items |-> <<>>]

RECURSIVE DecodeFrom(_, _, _)
DecodeFrom(buf, fix_ptr, items) ==
    IF fix_ptr >= Len(buf) THEN [ok |-> TRUE, items |-> items]
    ELSE IF fix_ptr + 5 > Len(buf) THEN DecodeFail
    ELSE
        LET src    == At(buf, fix_ptr)
            flags  == At(buf, fix_ptr + 1)
            srcoff == from_uint16_le(Slice(buf, fix_ptr + 2, fix_ptr + 4))
            objnum == At(buf, fix_ptr + 4) - 1
            p      == fix_ptr + 5
        IN  IF src \in {7, 5, 6}
            THEN IF BitSet(flags, 16)
                 THEN IF p + 4 > Len(buf) THEN DecodeFail
                      ELSE DecodeFrom(buf, p + 4, Append(items,
                               FixupTuple(IdFor(src, TRUE), src, flags, objnum, srcoff,
                                          from_uint32_le(Slice(buf, p, p + 4)))))
                 ELSE IF p + 2 > Len(buf) THEN DecodeFail
                      ELSE DecodeFrom(buf, p + 2, Append(items,
                               FixupTuple(IdFor(src, FALSE), src, flags, objnum, srcoff,
                                          from_uint16_le(Slice(buf, p, p + 2)))))
            ELSE IF src = 2
            THEN DecodeFrom(buf, p, Append(items,
                     FixupTuple("fix_16sel", src, flags, objnum, srcoff, None)))
            ELSE DecodeFail

fixups_decode(buf) == DecodeFrom(buf, 0, <<>>)

----------------------------------------------------------------------------
(* patch.py: find_offset, find_variable over mrcrowbar.utils.grep          *)
(*                                                                         *)
(* A pattern is a sequence of elements: a literal byte 0..255, Dot for a   *)
(* "." outside the capture group and Cap for a "." inside group 1 (grep    *)
(* compiles with DOTALL, so "." matches every byte).  grep is finditer:    *)
(* the matches from left to right, each search resuming where the last     *)
(* match ended.  A match is its start and the bytes of group 1.            *)

Dot == 256

Cap == 257

MatchAt(pattern, data, i) ==
    /\ i + Len(pattern) <= Len(data)
    /\ \A k \in 1..Len(pattern) : pattern[k] >= 256 \/ pattern[k] = data[i + k]

RECURSIVE GroupOf(_, _, _)
GroupOf(pattern, data, i) ==
    IF pattern = <<>> THEN <<>>
    ELSE (IF Head(pattern) = Cap THEN <<data[i + 1]>> ELSE <<>>)
             \o GroupOf(Tail(pattern), data, i + 1)

RECURSIVE GrepFrom(_, _, _)
GrepFrom(pattern, data, pos) ==
    IF pos + Len(pattern) > Len(data) THEN <<>>
    ELSE IF MatchAt(pattern, data, pos)
    THEN <<[start |-> pos, group |-> GroupOf(pattern, data, pos)]>>
             \o GrepFrom(pattern, data, pos + Len(pattern))
    ELSE GrepFrom(pattern, data, pos + 1)

grep(pattern, data) == GrepFrom(pattern, data, 0)

DataNotFound == [ok |-> FALSE, value |-> 0]

Found(v) == [ok |-> TRUE, value |-> v]

FindOffsetFirstOfMany(pattern, matches, offset) ==
    IF pattern = <<>> THEN DataNotFound
    ELSE IF matches = <<>> THEN DataNotFound
    ELSE Found(matches[1].start + offset)

FindOffsetOn(pattern, matches, offset) ==
    IF pattern = <<>> THEN DataNotFound
    ELSE IF matches = <<>> THEN DataNotFound
    ELSE IF Len(matches) > 1 THEN DataNotFound
    ELSE Found(matches[1].start + offset)

find_offset(pages, pattern, offset) ==
    FindOffsetOn(pattern, grep(pattern, pages), offset)

FindVariableOn(pattern, matches) ==
    IF pattern = <<>> THEN DataNotFound
    ELSE IF matches = <<>> THEN DataNotFound
    ELSE IF Len(matches) > 1 THEN DataNotFound
    ELSE Found(from_uint32_le(matches[1].group))

find_variable(pages, pattern) ==
    FindVariableOn(pattern, grep(pattern, pages))

----------------------------------------------------------------------------
(* iced_x86.Decoder(32, mod_code), for the instruction forms that patch()  *)
(* assembles or names.  An instruction is [ip, code, len,                  *)
(* memory_displacement].                                                   *)

\* Bytes of the ModRM byte, SIB byte and displacement starting at position p.
ModRMLen(code, p) ==
    LET m   == At(code, p)
        mod == m \div 64
        rm  == m % 8
        sib == IF mod # 3 /\ rm = 4 THEN 1 ELSE 0
        base5 == sib = 1 /\ p + 1 < Len(code) /\ At(code, p + 1) % 8 = 5
    IN  1 + sib + (CASE mod = 3 -> 0
                     [] mod = 0 -> IF rm = 5 \/ base5 THEN 4 ELSE 0
                     [] mod = 1 -> 1
                     [] mod = 2 -> 4)

\* Offset of the displacement from position p, or -1 when there is none.
ModRMDisplAt(code, p) ==
    LET m   == At(code, p)
        mod == m \div 64
        rm  == m % 8
        sib == IF mod # 3 /\ rm = 4 THEN 1 ELSE 0
        base5 == sib = 1 /\ p + 1 < Len(code) /\ At(code, p + 1) % 8 = 5
    IN  IF mod = 3 \/ (mod = 0 /\ rm # 5 /\ ~base5) THEN -1 ELSE 1 + sib

ModRMDispl(code, p) ==
    LET d == ModRMDisplAt(code, p)
        n == IF At(code, p) \div 64 = 1 THEN 1 ELSE 4
        b == Slice(code, p + d, p + d + n)
    IN  IF d = -1 \/ Len(b) < n THEN 0
        ELSE IF n = 1 THEN b[1] ELSE from_uint32_le(b)

RegOf(code, p) == (At(code, p) \div 8) % 8

OpRM ==
    [b \in {1, 3, 34, 41, 43, 49, 59, 137, 138, 139} |->
        CASE b = 1   -> "ADD_RM32_R32"
          [] b = 3   -> "ADD_R32_RM32"
          [] b = 34  -> "AND_R8_RM8"
          [] b = 41  -> "SUB_RM32_R32"
          [] b = 43  -> "SUB_R32_RM32"
          [] b = 49  -> "XOR_RM32_R32"
          [] b = 59  -> "CMP_R32_RM32"
          [] b = 137 -> "MOV_RM32_R32"
          [] b = 138 -> "MOV_R8_RM8"
          [] b = 139 -> "MOV_R32_RM32"]

Instr(ip, code, len, displ) ==
    [ip |-> ip, code |-> code, len |-> len, memory_displacement |-> displ]

DecodeOne(code, ip) ==
    LET b0   == At(code, ip)
        rest == Len(code) - ip
        hasM == rest >= 2
        Bad  == Instr(ip, "INVALID", rest, 0)
        WithRM(name, immlen) ==
            IF ~hasM \/ 1 + ModRMLen(code, ip + 1) + immlen > rest THEN Bad
            ELSE Instr(ip, name, 1 + ModRMLen(code, ip + 1) + immlen,
                       ModRMDispl(code, ip + 1))
        Fixed(name, n) == IF n > rest THEN Bad ELSE Instr(ip, name, n, 0)
        Moffs(name) ==
            IF 5 > rest THEN Bad
            ELSE Instr(ip, name, 5, from_uint32_le(Slice(code, ip + 1, ip + 5)))
    IN  CASE b0 \in DOMAIN OpRM -> WithRM(OpRM[b0], 0)
          [] b0 = 128 ->
                IF ~hasM THEN Bad
                ELSE CASE RegOf(code, ip + 1) = 7 -> WithRM("CMP_RM8_IMM8", 1)
                       [] RegOf(code, ip + 1) = 4 -> WithRM("AND_RM8_IMM8", 1)
                       [] OTHER -> WithRM("OTHER", 1)
          [] b0 = 246 ->
                IF ~hasM THEN Bad
                ELSE IF RegOf(code, ip + 1) = 0 THEN WithRM("TEST_RM8_IMM8", 1)
                ELSE WithRM("OTHER", 0)
          [] b0 = 199 ->
                IF ~hasM THEN Bad
                ELSE IF RegOf(code, ip + 1) = 0 THEN WithRM("MOV_RM32_IMM32", 4)
                ELSE Bad
          [] b0 = 102 ->
                IF rest >= 3 /\ At(code, ip + 1) = 199 /\ RegOf(code, ip + 2) = 0
                THEN IF 2 + ModRMLen(code, ip + 2) + 2 > rest THEN Bad
                     ELSE Instr(ip, "MOV_RM16_IMM16", 2 + ModRMLen(code, ip + 2) + 2,
                                ModRMDispl(code, ip + 2))
                ELSE IF rest >= 2 /\ At(code, ip + 1) \in 184..191
                THEN Fixed("MOV_R16_IMM16", 4)
                ELSE Bad
          [] b0 = 160 -> Moffs("MOV_AL_MOFFS8")
          [] b0 = 161 -> Moffs("MOV_EAX_MOFFS32")
          [] b0 = 163 -> Moffs("MOV_MOFFS32_EAX")
          [] b0 = 255 ->
                IF ~hasM THEN Bad
                ELSE IF RegOf(code, ip + 1) = 4 THEN WithRM("JMP_RM32", 0)
                ELSE WithRM("OTHER", 0)
          [] b0 = 193 -> WithRM("SHL_RM32_IMM8", 1)
          [] b0 = 209 -> WithRM("SHL_RM32_1", 0)
          [] b0 = 247 -> WithRM("NEG_RM32", 0)
          [] b0 \in 112..127 -> Fixed("JCC_REL8_32", 2)
          [] b0 = 235 -> Fixed("JMP_REL8_32", 2)
          [] b0 = 233 -> Fixed("JMP_REL32_32", 5)
          [] b0 = 232 -> Fixed("CALL_REL32_32", 5)
          [] b0 = 15  -> Fixed("JCC_REL32_32", 6)
          [] b0 = 5   -> Fixed("ADD_EAX_IMM32", 5)
          [] b0 = 45  -> Fixed("SUB_EAX_IMM32", 5)
          [] b0 = 60  -> Fixed("CMP_AL_IMM8", 2)
          [] b0 \in 184..191 -> Fixed("MOV_R32_IMM32", 5)
          [] b0 = 205 -> Fixed("INT_IMM8", 2)
          [] b0 = 144 -> Fixed("NOPD", 1)
          [] b0 = 195 -> Fixed("RETND", 1)
          [] b0 = 153 -> Fixed("CDQ", 1)
          [] b0 \in 80..87 -> Fixed("PUSH_R32", 1)
          [] b0 \in 88..95 -> Fixed("POP_R32", 1)
          [] OTHER -> Instr(ip, "INVALID", 1, 0)

RECURSIVE DecodeAll(_, _)
DecodeAll(code, ip) ==
    IF ip >= Len(code) THEN <<>>
    ELSE LET i == DecodeOne(code, ip)
         IN  <<i>> \o DecodeAll(code, ip + i.len)

Decoder(mod_code) == DecodeAll(mod_code, 0)

----------------------------------------------------------------------------
(* patch.py: the code patch loop body (lines 1267-1366)                    *)

CODE_OBJ == 0

DATA_OBJ == 2

InRange(x, lo, hi) == lo <= x /\ x < hi

\* pop taking its index as counted from 1
RemoveAtOneBased(list, j) == SubSeq(list, 1, j - 1) \o SubSeq(list, j + 1, Len(list))

RemoveAt(list, j) == SubSeq(list, 1, j) \o SubSeq(list, j + 2, Len(list))

RECURSIVE PopAll(_, _)
PopAll(list, to_remove) ==
    IF to_remove = <<>> THEN list
    ELSE PopAll(RemoveAt(list, Head(to_remove)), Tail(to_remove))

RECURSIVE ToRemovePageRelative(_, _, _, _, _)
ToRemovePageRelative(list, j, page_offset, lo, hi) ==
    IF j >= Len(list) THEN <<>>
    ELSE LET rest == ToRemovePageRelative(list, j + 1, page_offset, lo, hi)
         IN  IF InRange(At(list, j).srcoff, lo, hi)
             THEN Append(rest, j) ELSE rest

RECURSIVE ToRemove(_, _, _, _, _)
ToRemove(list, j, page_offset, lo, hi) ==
    IF j >= Len(list) THEN <<>>
    ELSE LET rest == ToRemove(list, j + 1, page_offset, lo, hi)
         IN  IF InRange(At(list, j).srcoff + page_offset, lo, hi)
             THEN Append(rest, j) ELSE rest

PageSkipped(i, page_size, lo, hi) ==
    i * page_size >= hi \/ (i * page_size + page_size) < lo

RemoveObsolete(records, page_size, lo, hi) ==
    [p \in DOMAIN records |->
        IF PageSkipped(p - 1, page_size, lo, hi) THEN records[p]
        ELSE PopAll(records[p], ToRemove(records[p], 0, (p - 1) * page_size, lo, hi))]

NoFixup == [k |-> -1, objnum |-> 0]

OperandWrongWord(instr) ==
    LET c == instr.code
    IN  CASE c \in {"ADD_RM32_R32", "MOV_RM32_IMM32", "AND_R8_RM8", "TEST_RM8_IMM8",
                    "CMP_R32_RM32", "CMP_RM8_IMM8", "MOV_R8_RM8", "MOV_R32_RM32",
                    "ADD_R32_RM32", "AND_RM8_IMM8"} -> [k |-> 2, objnum |-> DATA_OBJ]
          [] c \in {"MOV_RM32_R32", "SUB_RM32_R32"} ->
                IF instr.memory_displacement # 0
                THEN [k |-> 2, objnum |-> DATA_OBJ] ELSE NoFixup
          [] c \in {"MOV_AL_MOFFS8", "MOV_MOFFS32_EAX", "MOV_EAX_MOFFS32"} ->
                [k |-> 1, objnum |-> DATA_OBJ]
          [] c = "MOV_RM16_IMM16" -> [k |-> 2, objnum |-> DATA_OBJ]
          [] c = "JMP_RM32" -> [k |-> 3, objnum |-> CODE_OBJ]
          [] OTHER -> NoFixup

Operand(instr) ==
    LET c == instr.code
    IN  CASE c \in {"ADD_RM32_R32", "MOV_RM32_IMM32", "AND_R8_RM8", "TEST_RM8_IMM8",
                    "CMP_R32_RM32", "CMP_RM8_IMM8", "MOV_R8_RM8", "MOV_R32_RM32",
                    "ADD_R32_RM32", "AND_RM8_IMM8"} -> [k |-> 2, objnum |-> DATA_OBJ]
          [] c \in {"MOV_RM32_R32", "SUB_RM32_R32"} ->
                IF instr.memory_displacement # 0
                THEN [k |-> 2, objnum |-> DATA_OBJ] ELSE NoFixup
          [] c \in {"MOV_AL_MOFFS8", "MOV_MOFFS32_EAX", "MOV_EAX_MOFFS32"} ->
                [k |-> 1, objnum |-> DATA_OBJ]
          [] c = "MOV_RM16_IMM16" -> [k |-> 3, objnum |-> DATA_OBJ]
          [] c = "JMP_RM32" -> [k |-> 3, objnum |-> CODE_OBJ]
          [] OTHER -> NoFixup

\* The loop over the decoded instructions: appends to records, or raises
\* (ok = FALSE) on a page index out of range or a dword cut short.
RECURSIVE Synthesize(_, _, _, _, _, _)
Synthesize(records, instrs, mod_code, mod_offset, page_size, n) ==
    IF instrs = <<>> THEN [ok |-> TRUE, records |-> records]
    ELSE LET instr  == Head(instrs)
             offset == mod_offset + instr.ip
             srcoff == offset % page_size
             page   == offset \div page_size
             op     == Operand(instr)
             word   == Slice(mod_code, instr.ip + op.k, instr.ip + op.k + 4)
         IN  IF op.k = -1
             THEN Synthesize(records, Tail(instrs), mod_code, mod_offset, page_size, n)
             ELSE IF Len(word) < 4 \/ page >= Len(records)
             THEN [ok |-> FALSE, records |-> records]
             ELSE Synthesize(
                      [records EXCEPT ![page + 1] = Append(@,
                          Born(FixupTuple("fix_32off_32", 7, 16, op.objnum,
                                          srcoff + op.k, from_uint32_le(word)), n))],
                      Tail(instrs), mod_code, mod_offset, page_size, n)

\* The payload put in without taking the bytes it replaces out.
SliceInsert(pages, mod_offset, mod_code) ==
    Slice(pages, 0, mod_offset) \o mod_code \o Slice(pages, mod_offset, Len(pages))

\* page_data[mod_offset : mod_offset + len(mod_code)] = mod_code
SliceAssign(pages, mod_offset, mod_code) ==
    Slice(pages, 0, mod_offset) \o mod_code
        \o Slice(pages, mod_offset + Len(mod_code), Len(pages))

----------------------------------------------------------------------------
(* Search development: build a page buffer, then call one of the finders.  *)

ByteSet == {163, 1}

PatternSet ==
    {<<>>,
     <<163, Cap, Cap, Cap, Cap>>,
     <<163, 163, Cap, Cap, Cap, Cap>>,
     <<1, Dot, Cap, Cap, Cap, Cap, 1>>,
     <<Cap, Cap, Cap, Cap, 163, 1>>}

DeltaSet == {0, 5}

FindInit ==
    /\ mode = "find"
    /\ CodecIdle
    /\ PatchIdle
    /\ fdata = <<>>
    /\ fpattern \in PatternSet
    /\ fdelta \in DeltaSet
    /\ fcall = "none"
    /\ fres = DataNotFound

AppendByte ==
    /\ mode = "find"
    /\ fcall = "none"
    /\ Len(fdata) < MaxData
    /\ \E b \in ByteSet : fdata' = Append(fdata, b)
    /\ UNCHANGED <<mode, codecVars, patchVars, fpattern, fdelta, fcall, fres>>

CallFindOffset ==
    /\ mode = "find"
    /\ fcall = "none"
    /\ fres' = find_offset(fdata, fpattern, fdelta)
    /\ fcall' = "find_offset"
    /\ UNCHANGED <<mode, codecVars, patchVars, fdata, fpattern, fdelta>>

CallFindVariable ==
    /\ mode = "find"
    /\ fcall = "none"
    /\ fres' = find_variable(fdata, fpattern)
    /\ fcall' = "find_variable"
    /\ UNCHANGED <<mode, codecVars, patchVars, fdata, fpattern, fdelta>>

FindNext == AppendByte \/ CallFindOffset \/ CallFindVariable

SpecFind == FindInit /\ [][FindNext]_vars

----------------------------------------------------------------------------
(* C9: find_offset and find_variable require exactly one match.  Occ is    *)
(* the set of positions where the pattern matches.  The regex reports zero *)
(* matches when Occ is empty, at least two when two positions of Occ are   *)
(* a pattern length apart, and otherwise exactly one, at the least         *)
(* position.  With exactly one match find_offset returns its start plus    *)
(* the offset and find_variable the little-endian dword of the capture     *)
(* group; with no match, several matches or an empty pattern both raise    *)
(* DataNotFound and return nothing.  The call leaves the buffer as it was. *)

Occ(pattern, data) == {i \in 0..Len(data) : MatchAt(pattern, data, i)}

SeveralMatches(pattern, data) ==
    \E i, j \in Occ(pattern, data) : j >= i + Len(pattern)

OneMatch(pattern, data) ==
    /\ pattern # <<>>
    /\ Occ(pattern, data) # {}
    /\ ~SeveralMatches(pattern, data)

FirstOcc(pattern, data) ==
    CHOOSE i \in Occ(pattern, data) : \A j \in Occ(pattern, data) : i <= j

CapStart(pattern) == CHOOSE k \in 1..Len(pattern) : pattern[k] = Cap /\ (k = 1 \/ pattern[k - 1] # Cap)

ByteOf(v, k) == (v \div <<1, 256, 65536, 16777216>>[k + 1]) % 256

ExpectedFind(res, call, pattern, data, delta) ==
    IF ~OneMatch(pattern, data) THEN ~res.ok
    ELSE LET m == FirstOcc(pattern, data)
             g == m + CapStart(pattern)
         IN  /\ res.ok
             /\ call = "find_offset" => res.value = m + delta
             /\ call = "find_variable" =>
                    \A k \in 0..3 : ByteOf(res.value, k) = data[g + k]

C9_FindExactlyOne ==
    [][(mode = "find" /\ fcall = "none" /\ fcall' # "none") =>
          /\ ExpectedFind(fres', fcall', fpattern, fdata, fdelta)
          /\ fdata' = fdata]_vars

C9_Witness ==
    /\ mode = "find"
    /\ fcall = "find_variable"
    /\ fres.ok
    /\ fres.value = 1 + 256 * 163 + 65536 + 16777216
    /\ Cardinality(Occ(fpattern, fdata)) = 1

----------------------------------------------------------------------------
(* Codec development: build a record stream, decode it, encode it again.   *)

SrcSet == {7, 5, 6, 2, 3}

FlagsSet == {0, 16, 239, 255}

FieldSet ==
    {<<0, 0, <<0, 0, 0, 0>>>>,
     <<4660, 3, <<239, 190, 173, 222>>>>,
     <<65535, 255, <<255, 255, 255, 255>>>>}

WireRecord(src, flags, fld) ==
    <<src, flags>> \o to_uint16_le(fld[1]) \o <<fld[2]>>
        \o (IF src \in {7, 5, 6}
            THEN IF BitSet(flags, 16) THEN fld[3] ELSE SubSeq(fld[3], 1, 2)
            ELSE <<>>)

RECURSIVE WellFormedFrom(_, _)
WellFormedFrom(buf, p) ==
    IF p = Len(buf) THEN TRUE
    ELSE IF p + 5 > Len(buf) THEN FALSE
    ELSE LET src == At(buf, p)
             n   == IF src = 2 THEN 5
                    ELSE IF BitSet(At(buf, p + 1), 16) THEN 9 ELSE 7
         IN  /\ src \in {7, 5, 6, 2}
             /\ p + n <= Len(buf)
             /\ WellFormedFrom(buf, p + n)

WellFormed(buf) == WellFormedFrom(buf, 0)

RECURSIVE RecordCount(_, _)
RecordCount(buf, p) ==
    IF p >= Len(buf) THEN 0
    ELSE 1 + RecordCount(buf, p + (IF At(buf, p) \in {7, 5, 6}
                                   THEN IF BitSet(At(buf, p + 1), 16) THEN 9 ELSE 7
                                   ELSE 5))

CodecInit ==
    /\ mode = "codec"
    /\ CodecIdle
    /\ FindIdle
    /\ PatchIdle

BuildRecord ==
    /\ mode = "codec"
    /\ stage = "build"
    /\ RecordCount(buffer, 0) < MaxRecords
    /\ \E src \in SrcSet, flags \in FlagsSet, fld \in FieldSet :
           buffer' = buffer \o WireRecord(src, flags, fld)
    /\ UNCHANGED <<mode, decoded, encoded, stage, findVars, patchVars>>

Decode ==
    /\ mode = "codec"
    /\ stage = "build"
    /\ decoded' = fixups_decode(buffer)
    /\ stage' = "decoded"
    /\ UNCHANGED <<mode, buffer, encoded, findVars, patchVars>>

Encode ==
    /\ mode = "codec"
    /\ stage = "decoded"
    /\ decoded.ok
    /\ encoded' = fixups_encode(decoded.items)
    /\ stage' = "encoded"
    /\ UNCHANGED <<mode, buffer, decoded, findVars, patchVars>>

CodecNext == BuildRecord \/ Decode \/ Encode

SpecCodec == CodecInit /\ [][CodecNext]_vars

----------------------------------------------------------------------------
(* C1: fixup codec round trip.  Every stream of well-formed records        *)
(* decodes without error, and once the decoded list has been encoded the   *)
(* bytes are the original stream, whatever the flags byte and also when    *)
(* the objnum byte on the wire is 0.                                       *)
C1_RoundTrip ==
    (mode = "codec" /\ WellFormed(buffer)) =>
        /\ stage # "build" => decoded.ok
        /\ stage = "encoded" => (encoded.ok /\ encoded.bytes = buffer)

C1_Witness ==
    /\ mode = "codec"
    /\ stage = "encoded"
    /\ WellFormed(buffer)
    /\ Len(decoded.items) = 2
    /\ decoded.items[1].objnum = -1
    /\ decoded.items[1].flags = 239
    /\ decoded.items[2].id = "fix_16sel"

----------------------------------------------------------------------------
(* patch(): the two patch loops (lines 1267-1369)                          *)

ApplyCodePatch ==
    /\ mode \in {"engine", "patch"}
    /\ pc = "apply"
    /\ napplied < Len(CODE_PATCHES)
    /\ LET mod_code   == CODE_PATCHES[napplied + 1].code
           mod_offset == CODE_PATCHES[napplied + 1].offset
           page_size  == le_header.page_size
           removed    == RemoveObsolete(fixup_records, page_size, mod_offset,
                                        mod_offset + Len(mod_code))
           syn        == Synthesize(removed, Decoder(mod_code), mod_code, mod_offset,
                                    page_size, napplied + 1)
       IN  IF syn.ok
           THEN /\ fixup_records' = syn.records
                /\ page_data' = SliceAssign(page_data, mod_offset, mod_code)
                /\ napplied' = napplied + 1
                /\ pc' = pc
           ELSE /\ pc' = "error"
                /\ UNCHANGED <<fixup_records, page_data, napplied>>
    /\ UNCHANGED <<mode, codecVars, findVars, le_header, CODE_PATCHES, DATA_PATCHES,
                   ndata, f, args, grep_result, mz_off, le_off, game, env, out_open, out>>

\* The data loop run without waiting for the code loop.
ApplyDataPatchEarly ==
    /\ mode \in {"engine", "patch"}
    /\ pc = "apply"
    /\ ndata < Len(DATA_PATCHES)
    /\ page_data' = SliceAssign(page_data, DATA_PATCHES[ndata + 1].offset,
                                DATA_PATCHES[ndata + 1].code)
    /\ ndata' = ndata + 1
    /\ UNCHANGED <<mode, codecVars, findVars, pc, le_header, fixup_records,
                   CODE_PATCHES, DATA_PATCHES, napplied, f, args, grep_result, mz_off,
                   le_off, game, env, out_open, out>>

ApplyDataPatch ==
    /\ mode \in {"engine", "patch"}
    /\ pc = "apply"
    /\ napplied = Len(CODE_PATCHES)
    /\ ndata < Len(DATA_PATCHES)
    /\ page_data' = SliceAssign(page_data, DATA_PATCHES[ndata + 1].offset,
                                DATA_PATCHES[ndata + 1].code)
    /\ ndata' = ndata + 1
    /\ UNCHANGED <<mode, codecVars, findVars, pc, le_header, fixup_records,
                   CODE_PATCHES, DATA_PATCHES, napplied, f, args, grep_result, mz_off,
                   le_off, game, env, out_open, out>>

----------------------------------------------------------------------------
(* Patch engine development: one synthetic code patch and one data patch   *)
(* applied to a small image.                                               *)

VarA == <<165, 242, 1, 0>>

Imm32 == <<1, 0, 0, 0>>

Menu ==
    {<<1, 5>> \o VarA,                  \* add [VarA], eax        ADD_RM32_R32
     <<199, 5>> \o VarA \o Imm32,       \* mov dword [VarA], 1    MOV_RM32_IMM32
     <<34, 5>> \o VarA,                 \* and al, [VarA]         AND_R8_RM8
     <<246, 5>> \o VarA \o <<3>>,       \* test byte [VarA], 3    TEST_RM8_IMM8
     <<59, 5>> \o VarA,                 \* cmp eax, [VarA]        CMP_R32_RM32
     <<128, 61>> \o VarA \o <<0>>,      \* cmp byte [VarA], 0     CMP_RM8_IMM8
     <<138, 5>> \o VarA,                \* mov al, [VarA]         MOV_R8_RM8
     <<139, 13>> \o VarA,               \* mov ecx, [VarA]        MOV_R32_RM32
     <<3, 5>> \o VarA,                  \* add eax, [VarA]        ADD_R32_RM32
     <<128, 37>> \o VarA \o <<1>>,      \* and byte [VarA], 1     AND_RM8_IMM8
     <<137, 13>> \o VarA,               \* mov [VarA], ecx        MOV_RM32_R32
     <<137, 200>>,                      \* mov eax, ecx           MOV_RM32_R32
     <<137, 13, 0, 0, 0, 0>>,           \* mov [0], ecx           MOV_RM32_R32
     <<41, 5>> \o VarA,                 \* sub [VarA], eax        SUB_RM32_R32
     <<41, 200>>,                       \* sub eax, ecx           SUB_RM32_R32
     <<160>> \o VarA,                   \* mov al, [VarA]         MOV_AL_MOFFS8
     <<163>> \o VarA,                   \* mov [VarA], eax        MOV_MOFFS32_EAX
     <<161>> \o VarA,                   \* mov eax, [VarA]        MOV_EAX_MOFFS32
     <<102, 199, 5>> \o VarA \o <<0, 0>>,  \* mov word [VarA], 0  MOV_RM16_IMM16
     <<255, 36, 133>> \o VarA,          \* jmp [eax*4+VarA]       JMP_RM32
     <<43, 5>> \o VarA,                 \* sub eax, [VarA]        SUB_R32_RM32
     <<193, 224, 17>>,                  \* shl eax, 17            SHL_RM32_IMM8
     <<232>> \o VarA,                   \* call rel32             CALL_REL32_32
     <<125, 5>>,                        \* jge +5                 JGE_REL8_32
     <<144>>,                           \* nop                    NOPD
     <<195>>}                           \* ret                    RETND

Fillers == {<<144>>, <<193, 224, 17>>}

EnginePayloads ==
    Menu \cup {fl \o i : fl \in Fillers, i \in Menu} \cup {i \o <<195>> : i \in Menu}

EngineOffsets == {0, 14, 30, 45}

PageSizes == {16}

ProbeOffsets == {0, 5, 15, 21, 37}

EngineDataPatches == {[code |-> <<1, 2, 3>>, offset |-> 7], [code |-> <<1, 2, 3>>, offset |-> 47]}

BaseA == FixupTuple("fix_32off_32", 7, 16, 2, 2, 66)

BaseB == FixupTuple("fix_16sel", 2, 0, 0, 9, None)

Probe(srcoff) == FixupTuple("fix_32off_16", 7, 0, 1, srcoff, 4660)

\* src/tex3-patch.py:215, the 28 bytes of the first mouselook patch:
\* mov eax,ecx; shl eax,17; add [0x1f2a5],eax; mov eax,edx; shl eax,1;
\* add [0x1f2ad],eax; add [0x1f290],eax; ret
MOUSELOOK_CODE ==
    <<137, 200, 193, 224, 17, 1, 5, 165, 242, 1, 0, 137, 208, 209, 224,
      1, 5, 173, 242, 1, 0, 1, 5, 144, 242, 1, 0, 195>>

\* 0x364c3
MOUSELOOK_OFFSET == 222403

\* The image of scenario S5: fixup lists for pages of 4096 bytes up to page
\* 0x36.  The file ends within its first page, so that the slice assignment
\* of the payload at 0x364c3 lands at the end of page_data, as a bytearray
\* takes it; the lists do not depend on the bytes of the pages.
ImageS5 ==
    [page_size |-> 4096, pages |-> 55, page_data |-> [i \in 1..48 |-> 204]]

\* Lists of page 0x36 before the patch: a fixup at page offset 0x4c5, alone
\* or with others before the patch (0x4c2), in it (0x4ca) and after it
\* (0x4df).
OriginalsS5 ==
    {<<Probe(1221)>>,
     <<BaseA, Probe(1218), Probe(1221), BaseB>>,
     <<Probe(1221), Probe(1226), Probe(1247)>>,
     <<Probe(1226), Probe(1247), Probe(1221)>>}

EngineInit ==
    /\ mode = "engine"
    /\ CodecIdle
    /\ FindIdle
    /\ pc = "apply"
    /\ \/ /\ \E ps \in PageSizes :
                /\ le_header = [page_size |-> ps]
                /\ page_data = [i \in 1..(NumPages * ps) |-> 204]
          /\ \E pp \in 1..NumPages, so \in ProbeOffsets :
                fixup_records = [p \in 1..NumPages |->
                    IF p = pp THEN <<BaseA, Probe(so), BaseB>> ELSE <<BaseA, BaseB>>]
          /\ \E code \in EnginePayloads, offset \in EngineOffsets :
                CODE_PATCHES = <<[code |-> code, offset |-> offset]>>
          /\ \E d \in EngineDataPatches : DATA_PATCHES = <<d>>
       \/ /\ le_header = [page_size |-> ImageS5.page_size]
          /\ page_data = ImageS5.page_data
          /\ \E originals \in OriginalsS5 :
                fixup_records = [p \in 1..ImageS5.pages |->
                    IF p = ImageS5.pages THEN originals
                    ELSE IF p = ImageS5.pages - 1 THEN <<Probe(1221)>> ELSE <<>>]
          /\ CODE_PATCHES = <<[code |-> MOUSELOOK_CODE, offset |-> MOUSELOOK_OFFSET]>>
          /\ \E d \in {<<>>, <<[code |-> <<1, 2, 3>>, offset |-> 7]>>} :
                DATA_PATCHES = d
    /\ napplied = 0
    /\ ndata = 0
    /\ f = <<>>
    /\ args = [fix_speed |-> FALSE, mouselook |-> FALSE, invert_y |-> FALSE]
    /\ grep_result = <<>>
    /\ mz_off = 0
    /\ le_off = 0
    /\ game = ""
    /\ env = <<>>
    /\ out_open = FALSE
    /\ out = <<>>

EngineNext == ApplyCodePatch \/ ApplyDataPatch

SpecEngine == EngineInit /\ [][EngineNext]_vars

----------------------------------------------------------------------------
(* C2: patched range fixup removal.  Once a code patch over [O, O+L) has   *)
(* been applied, no record that was in a page list before that patch and   *)
(* is still there lies, by page_index * page_size + srcoff, in [O, O+L),   *)
(* for every 16-bit srcoff.                                                *)

LastPatch == CODE_PATCHES[napplied]

SurvivorInRange(p, j) ==
    /\ fixup_records[p][j].born < napplied
    /\ InRange((p - 1) * le_header.page_size + fixup_records[p][j].srcoff,
               LastPatch.offset, LastPatch.offset + Len(LastPatch.code))

C2_NoSurvivorInRange ==
    (mode \in {"engine", "patch"} /\ pc = "apply" /\ napplied >= 1) =>
        \A p \in DOMAIN fixup_records : \A j \in DOMAIN fixup_records[p] :
            ~SurvivorInRange(p, j)

----------------------------------------------------------------------------
(* C8: fixup synthesis table.  The records added while a code patch at O   *)
(* is applied are, page by page and in instruction order, one              *)
(* fix_32off_32 record (src 7, flags 0x10) per decoded instruction whose   *)
(* opcode form is in the table, with srcoff = ((O + ip) mod page_size) + k,*)
(* data = the dword at payload[ip + k .. ip + k + 4) and the table's       *)
(* object, in the list of page (O + ip) div page_size; no other record is  *)
(* added.                                                                  *)

TablePlus2 ==
    {"ADD_RM32_R32", "MOV_RM32_IMM32", "AND_R8_RM8", "TEST_RM8_IMM8", "CMP_R32_RM32",
     "CMP_RM8_IMM8", "MOV_R8_RM8", "MOV_R32_RM32", "ADD_R32_RM32", "AND_RM8_IMM8"}

TablePlus2IfDispl == {"MOV_RM32_R32", "SUB_RM32_R32"}

TablePlus1 == {"MOV_AL_MOFFS8", "MOV_MOFFS32_EAX", "MOV_EAX_MOFFS32"}

InTable(instr) ==
    \/ instr.code \in TablePlus2 \cup TablePlus1 \cup {"MOV_RM16_IMM16", "JMP_RM32"}
    \/ instr.code \in TablePlus2IfDispl /\ instr.memory_displacement # 0

TableK(instr) ==
    IF instr.code \in TablePlus1 THEN 1
    ELSE IF instr.code \in {"MOV_RM16_IMM16", "JMP_RM32"} THEN 3 ELSE 2

TableObj(instr) == IF instr.code = "JMP_RM32" THEN 0 ELSE 2

IsExpectedRecord(r, instr, patch, n) ==
    LET a == patch.offset + instr.ip
        k == TableK(instr)
    IN  /\ r.id = "fix_32off_32"
        /\ r.src = 7
        /\ r.flags = 16
        /\ r.objnum = TableObj(instr)
        /\ r.srcoff = (a % le_header.page_size) + k
        /\ r.born = n
        /\ \A i \in 0..3 : ByteOf(r.data, i) = patch.code[instr.ip + k + i + 1]

InstrsOfPage(instrs, patch, p) ==
    SelectSeq(instrs, LAMBDA i :
        InTable(i) /\ (patch.offset + i.ip) \div le_header.page_size = p - 1)

AddedBy(n, p) == SelectSeq(fixup_records[p], LAMBDA r : r.born = n)

C8_SynthesisTable ==
    (mode = "engine" /\ pc = "apply" /\ napplied >= 1) =>
        \A p \in DOMAIN fixup_records :
            LET added == AddedBy(napplied, p)
                exp   == InstrsOfPage(Decoder(LastPatch.code), LastPatch, p)
            IN  /\ Len(added) = Len(exp)
                /\ \A j \in DOMAIN added :
                       IsExpectedRecord(added[j], exp[j], LastPatch, napplied)

C8_Witness ==
    /\ mode = "engine"
    /\ pc = "apply"
    /\ napplied = 1
    /\ LastPatch = [code |-> <<144, 255, 36, 133>> \o VarA, offset |-> 14]
    /\ AddedBy(1, 1) = <<[id |-> "fix_32off_32", src |-> 7, flags |-> 16, objnum |-> 0,
                          srcoff |-> 18, data |-> 127653, born |-> 1]>>
    /\ AddedBy(1, 2) = <<>>

----------------------------------------------------------------------------
(* patch.py assemble_x86: iced_x86.BlockEncoder(32) over a list of         *)
(* instructions.  An item is one Instruction: fixed bytes, fixed bytes     *)
(* around a 32-bit memory operand, or a branch to a label.  The encoder    *)
(* starts every branch in its near form and shortens it to the rel8 form   *)
(* when the target is in range.                                            *)

\* Instruction.create / create_reg / create_reg_reg / create_reg_i32 / ...
I(b) ==
    [lbl |-> "", pre |-> b, mem |-> "", off |-> 0, post |-> <<>>, cc |-> 0,
     target |-> ""]

\* Instruction.create_mem_* / create_reg_mem with memory(var + off)
M(pre, var, off, post) ==
    [lbl |-> "", pre |-> pre, mem |-> var, off |-> off, post |-> post, cc |-> 0,
     target |-> ""]

\* Instruction.create_branch(code, label); cc is the opcode of the rel8 form
Jcc(cc, target) ==
    [lbl |-> "", pre |-> <<>>, mem |-> "", off |-> 0, post |-> <<>>, cc |-> cc,
     target |-> target]

\* add_label(id, instruction)
Lbl(l, item) == [item EXCEPT !.lbl = l]

IsBranch(item) == item.target # ""

NearSize(item) == IF item.cc = 235 THEN 5 ELSE 6

ItemSize(item, short) ==
    IF IsBranch(item) THEN (IF short THEN 2 ELSE NearSize(item))
    ELSE Len(item.pre) + (IF item.mem = "" THEN 0 ELSE 4) + Len(item.post)

\* Address of every item, and of the end of the block, for the given forms.
RECURSIVE Starts(_, _, _, _)
Starts(items, short, i, acc) ==
    IF i > Len(items) THEN <<acc>>
    ELSE <<acc>> \o Starts(items, short, i + 1,
                           acc + ItemSize(items[i], i \in short))

TargetOf(items, i) == CHOOSE j \in DOMAIN items : items[j].lbl = items[i].target

InRel8(d) == -128 <= d /\ d <= 127

\* One pass of the optimizer: a branch becomes short when its target is in
\* rel8 range of the end of its short form, in the current layout.
Shorten(items, short) ==
    LET addr == Starts(items, short, 1, 0)
    IN  short \cup {i \in DOMAIN items :
            /\ IsBranch(items[i])
            /\ InRel8(addr[TargetOf(items, i)] - (addr[i] + 2))}

RECURSIVE ShortForms(_, _)
ShortForms(items, short) ==
    LET next == Shorten(items, short)
    IN  IF next = short THEN short ELSE ShortForms(items, next)

Fixed(b) == [mem |-> "", off |-> 0, k |-> 0, byte |-> b]

FixedSeq(bs) == [i \in DOMAIN bs |-> Fixed(bs[i])]

\* The bytes of the block, with the memory operands still symbolic.
Encode32(items) ==
    LET short == ShortForms(items, {})
        addr  == Starts(items, short, 1, 0)
        One(i) ==
            LET item == items[i]
                rel  == addr[TargetOf(items, i)] - addr[i + 1]
            IN  IF IsBranch(item)
                THEN FixedSeq(IF i \in short THEN <<item.cc, rel % 256>>
                              ELSE IF item.cc = 235 THEN <<233>> \o to_uint32_le(rel)
                              ELSE <<15, item.cc + 16>> \o to_uint32_le(rel))
                ELSE FixedSeq(item.pre)
                     \o (IF item.mem = "" THEN <<>>
                         ELSE [k \in 1..4 |-> [mem |-> item.mem, off |-> item.off,
                                               k |-> k - 1, byte |-> 0]])
                     \o FixedSeq(item.post)
    IN  Concat([i \in DOMAIN items |-> One(i)])

\* The bytes once every variable has its address.
Resolved(template, vals) ==
    [i \in DOMAIN template |->
        IF template[i].mem = "" THEN template[i].byte
        ELSE ByteOf(vals[template[i].mem] + template[i].off, template[i].k)]

assemble_x86(items, vals) == Resolved(Encode32(items), vals)

\* A lone branch to an address outside the block, encoded at rip 0.
BranchTo(target) ==
    IF InRel8(target - 2) THEN <<235, (target - 2) % 256>>
    ELSE <<233>> \o to_uint32_le(target - 5)

NOPD == I(<<144>>)

RETND == I(<<195>>)

Repeat(item, n) == [i \in 1..n |-> item]

----------------------------------------------------------------------------
(* patch.py: the instruction lists of the mouselook patches                *)

\* patch.py:338-395
mouselook_instrs(invert_code) ==
    <<I(<<137, 200>>),
      I(<<193, 224, 17>>),
      M(<<1, 5>>, "var_movement_rot_angle", 0, <<>>),
      I(<<137, 208>>)>>
    \o invert_code
    \o <<I(<<209, 224>>),
         M(<<3, 5>>, "var_movement_tilt_angle_last", 0, <<>>),
         M(<<59, 5>>, "var_movement_tilt_angle_top", 0, <<>>),
         Jcc(125, "label_check2"),
         M(<<161>>, "var_movement_tilt_angle_top", 0, <<>>),
         Lbl("label_check2", M(<<59, 5>>, "var_movement_tilt_angle_bottom", 0, <<>>)),
         Jcc(126, "label_after"),
         M(<<161>>, "var_movement_tilt_angle_bottom", 0, <<>>),
         Lbl("label_after", M(<<163>>, "var_movement_tilt_angle", 0, <<>>)),
         M(<<163>>, "var_movement_tilt_angle_last", 0, <<>>),
         I(<<195>>)>>

\* patch.py:493-586
wasd_instrs(abductor_prefix) ==
    abductor_prefix
    \o <<M(<<199, 5>>, "var_movement_strafe", 0, <<1, 0, 0, 0>>),
         Lbl("label_up", I(<<49, 192>>)),
         M(<<246, 5>>, "var_keyboard_state", 17, <<3>>),
         Jcc(116, "label_down"),
         I(<<45, 0, 64, 0, 0>>),
         Lbl("label_down", M(<<246, 5>>, "var_keyboard_state", 31, <<3>>)),
         Jcc(116, "label_leftyrighty"),
         I(<<5, 0, 64, 0, 0>>),
         Lbl("label_leftyrighty", M(<<246, 5>>, "var_keyboard_state", 42, <<3>>)),
         Jcc(116, "label_apply_fwd"),
         I(<<209, 224>>),
         Lbl("label_apply_fwd", M(<<163>>, "var_movement_fwd_veloc_world", 0, <<>>)),
         Lbl("label_left", I(<<49, 192>>)),
         M(<<246, 5>>, "var_keyboard_state", 30, <<3>>),
         Jcc(116, "label_right"),
         I(<<45, 0, 192, 0, 0>>),
         Lbl("label_right", M(<<246, 5>>, "var_keyboard_state", 32, <<3>>)),
         Jcc(116, "label_fin"),
         I(<<5, 0, 192, 0, 0>>),
         Lbl("label_fin", M(<<246, 5>>, "var_keyboard_state", 42, <<3>>)),
         Jcc(116, "label_apply_strafe"),
         I(<<209, 224>>),
         Lbl("label_apply_strafe", M(<<163>>, "var_movement_strafe_veloc_world", 0, <<>>)),
         M(<<128, 37>>, "var_keyboard_state", 17, <<1>>),
         M(<<128, 37>>, "var_keyboard_state", 31, <<1>>),
         M(<<128, 37>>, "var_keyboard_state", 30, <<1>>),
         M(<<128, 37>>, "var_keyboard_state", 32, <<1>>),
         M(<<128, 37>>, "var_keyboard_state", 42, <<1>>),
         Lbl("label_skip", I(<<144>>))>>

\* patch.py:717-852
crouch_instrs(abductor_prefix) ==
    abductor_prefix
    \o <<Lbl("label_start", I(<<81>>)),
         I(<<82>>),
         M(<<139, 13>>, "var_movement_eye_level_min", 0, <<>>),
         M(<<3, 13>>, "var_movement_eye_level_restore", 0, <<>>),
         M(<<246, 5>>, "var_keyboard_state", 46, <<3>>),
         Jcc(117, "label_crouch"),
         M(<<246, 5>>, "var_keyboard_state", 19, <<3>>),
         Jcc(116, "label_restore"),
         Lbl("label_tippytoes", M(<<161>>, "var_movement_eye_level_incr", 0, <<>>)),
         M(<<1, 5>>, "var_movement_eye_level", 0, <<>>),
         M(<<161>>, "var_movement_eye_level", 0, <<>>),
         M(<<59, 5>>, "var_movement_eye_level_max", 0, <<>>),
         Jcc(126, "label_fin"),
         M(<<161>>, "var_movement_eye_level_max", 0, <<>>),
         M(<<163>>, "var_movement_eye_level", 0, <<>>),
         Jcc(235, "label_fin"),
         Lbl("label_crouch", M(<<161>>, "var_movement_eye_level_incr", 0, <<>>)),
         M(<<41, 5>>, "var_movement_eye_level", 0, <<>>),
         M(<<161>>, "var_movement_eye_level", 0, <<>>),
         M(<<59, 5>>, "var_movement_eye_level_min", 0, <<>>),
         Jcc(125, "label_fin"),
         M(<<161>>, "var_movement_eye_level_min", 0, <<>>),
         M(<<163>>, "var_movement_eye_level", 0, <<>>),
         Jcc(235, "label_fin"),
         Lbl("label_restore", M(<<161>>, "var_movement_eye_level", 0, <<>>)),
         I(<<43, 193>>),
         I(<<153>>),
         I(<<49, 208>>),
         I(<<43, 194>>),
         M(<<59, 5>>, "var_movement_eye_level_incr", 0, <<>>),
         Jcc(126, "label_skip"),
         M(<<161>>, "var_movement_eye_level_incr", 0, <<>>),
         M(<<59, 13>>, "var_movement_eye_level", 0, <<>>),
         Jcc(127, "label_adjust"),
         I(<<247, 216>>),
         Lbl("label_adjust", M(<<1, 5>>, "var_movement_eye_level", 0, <<>>)),
         Jcc(235, "label_fin"),
         Lbl("label_skip", M(<<137, 13>>, "var_movement_eye_level", 0, <<>>)),
         Lbl("label_fin", M(<<128, 37>>, "var_keyboard_state", 46, <<1>>)),
         M(<<128, 37>>, "var_keyboard_state", 19, <<1>>),
         I(<<90>>),
         I(<<89>>),
         I(<<195>>)>>

\* patch.py:923-939
vsync_instrs ==
    <<I(<<80>>),
      I(<<83>>),
      I(<<81>>),
      I(<<82>>),
      I(<<102, 184, 7, 79>>),
      I(<<102, 187, 128, 0>>),
      I(<<102, 185, 0, 0>>),
      I(<<102, 186, 0, 0>>),
      I(<<205, 16>>),
      I(<<90>>),
      I(<<89>>),
      I(<<91>>),
      I(<<88>>)>>

\* patch.py:1050-1207
abductor_instrs ==
    <<M(<<128, 61>>, "var_fake_key_input", 0, <<42>>),
      Jcc(117, "label_hoverdown"),
      M(<<161>>, "var_movement_eye_level", 0, <<>>),
      I(<<5, 0, 4, 0, 0>>),
      M(<<59, 5>>, "var_movement_eye_level_max", 0, <<>>),
      Jcc(124, "label_hoverup_write"),
      M(<<161>>, "var_movement_eye_level_max", 0, <<>>),
      Lbl("label_hoverup_write", M(<<163>>, "var_movement_eye_level", 0, <<>>)),
      Lbl("label_hoverdown", M(<<128, 61>>, "var_fake_key_input", 0, <<56>>)),
      Jcc(117, "label_dpad"),
      M(<<161>>, "var_movement_eye_level", 0, <<>>),
      I(<<45, 0, 4, 0, 0>>),
      M(<<59, 5>>, "var_movement_eye_level_min", 0, <<>>),
      Jcc(127, "label_hoverdown_write"),
      M(<<161>>, "var_movement_eye_level_min", 0, <<>>),
      Lbl("label_hoverdown_write", M(<<163>>, "var_movement_eye_level", 0, <<>>)),
      Lbl("label_dpad", M(<<160>>, "var_abductor_state", 0, <<>>)),
      I(<<60, 2>>),
      Jcc(116, "label_move"),
      M(<<199, 5>>, "var_movement_strafe_veloc_world", 0, <<0, 0, 0, 0>>),
      M(<<199, 5>>, "var_movement_fwd_veloc_world", 0, <<0, 0, 0, 0>>),
      Jcc(235, "label_fin"),
      Lbl("label_move", M(<<246, 5>>, "var_abductor_dpad", 0, <<12>>)),
      Jcc(116, "label_updown"),
      Lbl("label_turn", I(<<184, 0, 0, 64, 0>>)),
      M(<<246, 5>>, "var_abductor_dpad", 0, <<8>>),
      Jcc(117, "label_leftright_speed"),
      I(<<247, 216>>),
      Lbl("label_leftright_speed", M(<<246, 5>>, "var_keyboard_state", 42, <<3>>)),
      Jcc(116, "label_leftright_apply"),
      I(<<209, 224>>),
      Lbl("label_leftright_apply", M(<<163>>, "var_movement_strafe_veloc_world", 0, <<>>)),
      Lbl("label_updown", M(<<246, 5>>, "var_abductor_dpad", 0, <<3>>)),
      Jcc(116, "label_fin"),
      I(<<184, 0, 24, 0, 0>>),
      M(<<246, 5>>, "var_abductor_dpad", 0, <<2>>),
      Jcc(117, "label_updown_speed"),
      I(<<247, 216>>),
      Lbl("label_updown_speed", M(<<246, 5>>, "var_keyboard_state", 42, <<3>>)),
      Jcc(116, "label_updown_apply"),
      I(<<209, 224>>),
      Lbl("label_updown_apply", M(<<163>>, "var_movement_fwd_veloc_world", 0, <<>>)),
      Lbl("label_fin", M(<<102, 199, 5>>, "var_mouse_unbounded_x_mod", 0, <<0, 0>>)),
      M(<<102, 199, 5>>, "var_mouse_unbounded_y_mod", 0, <<0, 0>>),
      M(<<128, 37>>, "var_keyboard_state", 42, <<1>>),
      I(<<195>>)>>

----------------------------------------------------------------------------
(* le.py: LEHeader, FixupPageTable, search_for_le                          *)

\* The fields of LEHeader in declaration order, with their sizes in bytes.
HeaderFields ==
    << <<"magic", 2>>, <<"b_ord", 1>>, <<"w_ord", 1>>, <<"format_level", 4>>,
       <<"cpu_type", 2>>, <<"os_type", 2>>, <<"module_version", 4>>,
       <<"module_flags", 4>>, <<"module_num_pages", 4>>, <<"eip_obj_num", 4>>,
       <<"eip", 4>>, <<"esp_obj_num", 4>>, <<"esp", 4>>, <<"page_size", 4>>,
       <<"page_offset_shift", 4>>, <<"fixup_section_size", 4>>,
       <<"fixup_section_csum", 4>>, <<"loader_section_size", 4>>,
       <<"loader_section_csum", 4>>, <<"obj_table_offset", 4>>,
       <<"obj_count", 4>>, <<"obj_page_table_offset", 4>>,
       <<"obj_iter_pages_offset", 4>>, <<"res_table_offset", 4>>,
       <<"res_count", 4>>, <<"resident_name_table_offset", 4>>,
       <<"entry_table_offset", 4>>, <<"module_directives_offset", 4>>,
       <<"module_directives_count", 4>>, <<"fixup_page_table_offset", 4>>,
       <<"fixup_record_table_offset", 4>>, <<"import_module_table_offset", 4>>,
       <<"import_module_count", 4>>, <<"import_proc_table_offset", 4>>,
       <<"per_page_csum_offset", 4>>, <<"data_pages_offset", 4>>,
       <<"preload_pages_count", 4>>, <<"nonres_name_table_offset", 4>>,
       <<"nonres_name_table_length", 4>>, <<"nonres_name_table_csum", 4>>,
       <<"auto_ds_object_count", 4>>, <<"debug_info_offset", 4>>,
       <<"debug_info_length", 4>>, <<"instance_preload_count", 4>>,
       <<"instance_demand_count", 4>>, <<"heap_size", 4>>, <<"stack_size", 4>>
    >>

FieldNames == {HeaderFields[k][1] : k \in DOMAIN HeaderFields}

RECURSIVE FieldOffset(_)
FieldOffset(k) == IF k = 1 THEN 0 ELSE FieldOffset(k - 1) + HeaderFields[k - 1][2]

\* LEHeader.get_size()
get_size == FieldOffset(Len(HeaderFields)) + HeaderFields[Len(HeaderFields)][2]

FieldOffsets == [k \in DOMAIN HeaderFields |-> FieldOffset(k)]

FieldIndexes ==
    [n \in FieldNames |-> CHOOSE k \in DOMAIN HeaderFields : HeaderFields[k][1] = n]

FieldIndex(n) == FieldIndexes[n]

MagicLE == <<76, 69>>

FieldValue(buf, k) ==
    LET b == Slice(buf, FieldOffsets[k], FieldOffsets[k] + HeaderFields[k][2])
    IN  CASE k = 1 -> b
          [] HeaderFields[k][2] = 1 -> b[1]
          [] HeaderFields[k][2] = 2 -> from_uint16_le(b)
          [] OTHER -> from_uint32_le(b)

FieldBytes(h, k) ==
    LET v == h[HeaderFields[k][1]]
    IN  CASE k = 1 -> v
          [] HeaderFields[k][2] = 1 -> <<v % 256>>
          [] HeaderFields[k][2] = 2 -> to_uint16_le(v)
          [] OTHER -> to_uint32_le(v)

\* LEHeader(buf): raises when the buffer is shorter than the block or the
\* magic is not "LE".
LEHeader(buf) ==
    IF Len(buf) < get_size \/ Slice(buf, 0, 2) # MagicLE
    THEN [ok |-> FALSE, header |-> [page_size |-> 0]]
    ELSE [ok |-> TRUE,
          header |-> [n \in FieldNames |-> FieldValue(buf, FieldIndex(n))]]

\* le_header.export_data()
export_data(h) == Concat([k \in DOMAIN HeaderFields |-> FieldBytes(h, k)])

\* FixupPageTable(buf).offsets: the whole dwords of the buffer
FixupPageTable(buf) ==
    [i \in 1..(Len(buf) \div 4) |-> from_uint32_le(Slice(buf, 4 * (i - 1), 4 * i))]

ExportOffsetsAsWords(offsets) ==
    Concat([i \in DOMAIN offsets |-> to_uint16_le(offsets[i])])

\* fixup_page_table.export_data()
ExportOffsets(offsets) == Concat([i \in DOMAIN offsets |-> to_uint32_le(offsets[i])])

MZ == <<77, 90>>

BW == <<66, 87>>

RECURSIVE SearchFromNoQuirk(_, _, _)
SearchFromNoQuirk(exe, ptr, seen) ==
    LET header == Slice(exe, ptr, ptr + 64)
        sig    == Slice(header, 0, 2)
        Stop(s) == [status |-> s, mz_off |-> 0, le_off |-> 0]
    IN  IF ptr >= Len(exe) THEN Stop("error")
        ELSE IF ptr \in seen THEN Stop("hang")
        ELSE IF sig # MZ /\ sig # BW THEN Stop("error")
        ELSE IF Len(header) < 26 THEN Stop("error")
        ELSE IF from_uint16_le(Slice(header, 24, 26)) = 64 /\ Len(header) < 62
        THEN Stop("error")
        ELSE IF /\ from_uint16_le(Slice(header, 24, 26)) = 64
                /\ from_uint16_le(Slice(header, 60, 62)) # 0
        THEN [status |-> "found", mz_off |-> ptr,
              le_off |-> ptr + from_uint16_le(Slice(header, 60, 62))]
        ELSE LET page_count      == from_uint16_le(Slice(header, 4, 6))
                 last_page_bytes == from_uint16_le(Slice(header, 2, 4))
                 total_size == page_count * 512 + last_page_bytes
             IN  SearchFromNoQuirk(exe, ptr + total_size, seen \cup {ptr})

\* search_for_le: "found" with (mz_off, le_off), "error" for either
\* RuntimeError or a header cut short, "hang" when the cursor comes back to a
\* place it has been, which the loop then repeats for ever.
RECURSIVE SearchFrom(_, _, _)
SearchFrom(exe, ptr, seen) ==
    LET header == Slice(exe, ptr, ptr + 64)
        sig    == Slice(header, 0, 2)
        Stop(s) == [status |-> s, mz_off |-> 0, le_off |-> 0]
    IN  IF ptr >= Len(exe) THEN Stop("error")
        ELSE IF ptr \in seen THEN Stop("hang")
        ELSE IF sig # MZ /\ sig # BW THEN Stop("error")
        ELSE IF Len(header) < 26 THEN Stop("error")
        ELSE IF from_uint16_le(Slice(header, 24, 26)) = 64 /\ Len(header) < 62
        THEN Stop("error")
        ELSE IF /\ from_uint16_le(Slice(header, 24, 26)) = 64
                /\ from_uint16_le(Slice(header, 60, 62)) # 0
        THEN [status |-> "found", mz_off |-> ptr,
              le_off |-> ptr + from_uint16_le(Slice(header, 60, 62))]
        ELSE LET page_count      == from_uint16_le(Slice(header, 4, 6))
                 last_page_bytes == from_uint16_le(Slice(header, 2, 4))
                 total_size == page_count * 512 + last_page_bytes
                                   - (IF sig = MZ THEN 512 ELSE 0)
             IN  SearchFrom(exe, ptr + total_size, seen \cup {ptr})

search_for_le(exe) == SearchFrom(exe, 0, {})

----------------------------------------------------------------------------
(* patch.py: patch(), reading the input (lines 126-165)                    *)

RECURSIVE DecodeTables(_, _, _, _)
DecodeTables(table, offsets, i, n) ==
    IF i >= n THEN [ok |-> TRUE, records |-> <<>>]
    ELSE IF i + 2 > Len(offsets) THEN [ok |-> FALSE, records |-> <<>>]
    ELSE LET d    == fixups_decode(Slice(table, offsets[i + 1], offsets[i + 2]))
             rest == DecodeTables(table, offsets, i + 1, n)
         IN  IF d.ok /\ rest.ok
             THEN [ok |-> TRUE, records |-> <<d.items>> \o rest.records]
             ELSE [ok |-> FALSE, records |-> <<>>]

Parsed(exe) ==
    LET found   == search_for_le(exe)
        hdr     == LEHeader(Slice(exe, found.le_off, Len(exe)))
        h       == hdr.header
        offsets == FixupPageTable(
                       Slice(Slice(exe, found.le_off + h.fixup_page_table_offset,
                                   Len(exe)),
                             0, 4 * (h.module_num_pages + 1)))
        table   == Slice(exe, found.le_off + h.fixup_record_table_offset, Len(exe))
        records == DecodeTables(table, offsets, 0, h.module_num_pages)
    IN  IF found.status # "found" THEN [status |-> found.status]
        ELSE IF ~hdr.ok THEN [status |-> "error"]
        ELSE IF ~records.ok THEN [status |-> "error"]
        ELSE [status |-> "found", mz_off |-> found.mz_off, le_off |-> found.le_off,
              le_header |-> h, fixup_records |-> records.records,
              page_data |-> Slice(exe, found.mz_off + h.data_pages_offset, Len(exe))]

Titles == {"Under a Killing Moon", "The Pandora Directive"}
detect_version_any_title(matches) ==
    IF matches = <<>> THEN [ok |-> FALSE, game |-> ""]
    ELSE [ok |-> TRUE, game |-> matches[1].group]

\* detect_version on the matches of VERSION_PATTERN: the group is the title.
detect_version(matches) ==
    IF matches = <<>> THEN [ok |-> FALSE, game |-> ""]
    ELSE IF matches[1].group \notin Titles THEN [ok |-> FALSE, game |-> ""]
    ELSE [ok |-> TRUE, game |-> matches[1].group]

----------------------------------------------------------------------------
(* patch.py: detect_version on the bytes of the pages (lines 59-84)        *)
(*                                                                         *)
(* VERSION_PATTERN is matched as the regex engine matches it: every        *)
(* quantifier is greedy, and gives back only what the rest of the pattern  *)
(* needs.  The bytes between two 0xb3 of the title line are a run of       *)
(* [A-Za-z ]; \x20+ takes the leading spaces, group 1 the rest of the run  *)
(* but its last space, which the second \x20+ needs.                       *)

AsciiKillingMoon ==
    <<85, 110, 100, 101, 114, 32, 97, 32, 75, 105, 108, 108, 105, 110,
    103, 32, 77, 111, 111, 110>>

AsciiPandora ==
    <<84, 104, 101, 32, 80, 97, 110, 100, 111, 114, 97, 32, 68, 105, 114,
    101, 99, 116, 105, 118, 101>>

AsciiOverseer ==
    <<84, 101, 120, 32, 77, 117, 114, 112, 104, 121, 32, 79, 118, 101,
    114, 115, 101, 101, 114>>

AsciiVersion ==
    <<86, 101, 114, 115, 105, 111, 110, 32>>

AsciiV102 ==
    <<49, 46, 48, 50>>

AsciiV10 ==
    <<49, 46, 48>>

AsciiEnglish ==
    <<69, 110, 103, 108, 105, 115, 104>>

AsciiDigi ==
    <<82, 101, 116, 114, 105, 101, 118, 105, 110, 103, 32, 68, 73, 71, 73,
    32, 115, 101, 116, 116, 105, 110, 103, 115>>

Letters == (65..90) \cup (97..122)

TitleClass == Letters \cup {32}

VersionClass == (48..57) \cup {46}

\* the number of bytes of data from index i on that are in S
RECURSIVE Run(_, _, _)
Run(data, i, S) ==
    IF i >= 0 /\ i < Len(data) /\ data[i + 1] \in S
    THEN 1 + Run(data, i + 1, S) ELSE 0

Lit(data, i, bytes) ==
    /\ i >= 0
    /\ i + Len(bytes) <= Len(data)
    /\ SubSeq(data, i + 1, i + Len(bytes)) = bytes

EolLfCrOnly(data, i) == Lit(data, i, <<10, 13>>)

\* (?:\x0a\x0d|\x0d\x0a)
Eol(data, i) == Lit(data, i, <<10, 13>>) \/ Lit(data, i, <<13, 10>>)

NoMatch == [ok |-> FALSE, end |-> 0, group1 |-> <<>>, group2 |-> <<>>]

VersionMatchAt(data, i) ==
    LET c    == Run(data, i + 1, {196})
        p1   == i + 1 + c
        p2   == p1 + 3
        T    == Run(data, p2 + 1, TitleClass)
        s    == Run(data, p2 + 1, {32})
        lead == IF s = T THEN T - 2 ELSE s
        p3   == p2 + 1 + T
        p4   == p3 + 3
        v    == Run(data, p4 + 1, {32})
        p5   == p4 + 1 + v
        p6   == p5 + Len(AsciiVersion)
        g    == Run(data, p6, VersionClass)
        w    == Run(data, p6 + g, {32})
        p7   == p6 + g + w
    IN  IF /\ Lit(data, i, <<218>>)
           /\ c >= 1
           /\ Lit(data, p1, <<191>>)
           /\ Eol(data, p1 + 1)
           /\ Lit(data, p2, <<179>>)
           /\ s >= 1
           /\ T >= 3
           /\ At(data, p2 + T) = 32
           /\ Lit(data, p3, <<179>>)
           /\ Eol(data, p3 + 1)
           /\ Lit(data, p4, <<179>>)
           /\ v >= 1
           /\ Lit(data, p5, AsciiVersion)
           /\ g >= 1
           /\ w >= 1
           /\ Lit(data, p7, <<179>>)
        THEN [ok |-> TRUE, end |-> p7 + 1,
              group1 |-> Slice(data, p2 + 1 + lead, p2 + T),
              group2 |-> Slice(data, p6, p6 + g)]
        ELSE NoMatch

\* utils.grep(VERSION_PATTERN, page_data): the matches from left to right
RECURSIVE VersionGrep(_, _)
VersionGrep(data, i) ==
    IF i >= Len(data) THEN <<>>
    ELSE LET m == VersionMatchAt(data, i)
         IN  IF m.ok THEN <<m>> \o VersionGrep(data, m.end)
             ELSE VersionGrep(data, i + 1)

\* \x00([A-Za-z]+)\x00Retrieving DIGI settings
LanguageMatchAt(data, i) ==
    LET r == Run(data, i + 1, Letters)
    IN  IF /\ Lit(data, i, <<0>>)
           /\ r >= 1
           /\ Lit(data, i + 1 + r, <<0>> \o AsciiDigi)
        THEN [ok |-> TRUE, end |-> i + 2 + r + Len(AsciiDigi),
              group1 |-> Slice(data, i + 1, i + 1 + r), group2 |-> <<>>]
        ELSE NoMatch

RECURSIVE LanguageGrep(_, _)
LanguageGrep(data, i) ==
    IF i >= Len(data) THEN <<>>
    ELSE LET m == LanguageMatchAt(data, i)
         IN  IF m.ok THEN <<m>> \o LanguageGrep(data, m.end)
             ELSE LanguageGrep(data, i + 1)

\* bytes.decode("ascii"): the text of the bytes, for the texts of the model
RECURSIVE Spaces(_)
Spaces(k) == IF k <= 0 THEN "" ELSE " " \o Spaces(k - 1)

RECURSIVE TrailingSpaces(_)
TrailingSpaces(bytes) ==
    IF bytes # <<>> /\ bytes[Len(bytes)] = 32
    THEN 1 + TrailingSpaces(SubSeq(bytes, 1, Len(bytes) - 1)) ELSE 0

decode(bytes) ==
    LET k    == TrailingSpaces(bytes)
        base == SubSeq(bytes, 1, Len(bytes) - k)
        text == CASE base = AsciiKillingMoon -> "Under a Killing Moon"
                  [] base = AsciiPandora -> "The Pandora Directive"
                  [] base = AsciiOverseer -> "Tex Murphy Overseer"
                  [] base = AsciiV102 -> "1.02"
                  [] base = AsciiV10 -> "1.0"
                  [] base = AsciiEnglish -> "English"
                  [] base = <<>> -> ""
                  [] OTHER -> "?"
    IN  text \o Spaces(k)

DetectionError == [ok |-> FALSE, game |-> "", version |-> "", language |-> ""]

\* detect_version(page_data): lines 59-84
detect_version_of(data) ==
    LET result == VersionGrep(data, 0)
        titles == [k \in DOMAIN result |->
                      [start |-> 0, group |-> decode(result[k].group1)]]
        found  == detect_version(titles)
        langs  == LanguageGrep(data, 0)
    IN  IF ~found.ok THEN DetectionError
        ELSE [ok |-> TRUE, game |-> found.game,
              version |-> decode(result[1].group2),
              language |-> IF langs = <<>> THEN "UNKNOWN"
                           ELSE decode(langs[1].group1)]

----------------------------------------------------------------------------
(* patch.py: patch(), the searches and the patch catalogue (lines 167-1262)*)
(*                                                                         *)
(* grep_result holds, for every pattern, the matches utils.grep reports on *)
(* the pages; find_offset and find_variable are applied to them as in the  *)
(* Search development.                                                     *)

PATTERN ==
    "fix_speed_offset" :>   \* patch.py:181
        <<247, 216, 131, 192, 100, 117, 5, 184, 4, 0, 0, 0>>
    @@ "var_movement_rot_angle" :>   \* patch.py:195
        <<163, Cap, Cap, Cap, Cap, 193, 248, 16, 232, Dot, Dot, Dot, Dot, 161,
          Dot, Dot, Dot, Dot>>
    @@ "var_movement_tilt_angle" :>   \* patch.py:200
        <<199, 5, Cap, Cap, Cap, Cap, 44, 1, 0, 0>>
    @@ "var_movement_tilt_angle_last" :>   \* patch.py:203
        <<163, Cap, Cap, Cap, Cap, 161, Dot, Dot, Dot, Dot, 11, 192, 116, 44>>
    @@ "var_movement_tilt_angle_bottom" :>   \* patch.py:208
        <<161, Cap, Cap, Cap, Cap, 163, Dot, Dot, Dot, Dot, 163, Dot, Dot,
          Dot, Dot, 15, 182, 29, Dot, Dot, Dot, Dot>>
    @@ "var_movement_tilt_angle_top" :>   \* patch.py:213
        <<161, Cap, Cap, Cap, Cap, 163, Dot, Dot, Dot, Dot, 163, Dot, Dot,
          Dot, Dot, 161, Dot, Dot, Dot, Dot, 11, 192>>
    @@ "var_movement_strafe" :>   \* patch.py:218
        <<131, 37, Cap, Cap, Cap, Cap, 252, 102, 15, Dot, Dot, Dot, Dot>>
    @@ "var_keyboard_state" :>   \* patch.py:221
        <<185, 44, 0, 0, 0, 191, Cap, Cap, Cap, Cap>>
    @@ "var_movement_fwd_veloc_world" :>   \* patch.py:224
        <<247, 45, Dot, Dot, Dot, Dot, 15, 172, 208, 16, 163, Cap, Cap, Cap,
          Cap, 139, 193>>
    @@ "var_movement_strafe_veloc_world" :>   \* patch.py:229
        <<11, 237, 121, 2, 247, 216, 163, Cap, Cap, Cap, Cap, 195>>
    @@ "var_movement_eye_level_incr" :>   \* patch.py:234
        <<128, 160, Dot, Dot, Dot, Dot, 1, 128, 163, Dot, Dot, Dot, Dot, 1,
          161, Cap, Cap, Cap, Cap>>
    @@ "var_movement_eye_level" :>   \* patch.py:239
        <<128, 160, Dot, Dot, Dot, Dot, 1, 128, 163, Dot, Dot, Dot, Dot, 1,
          161, Dot, Dot, Dot, Dot, 41, 5, Cap, Cap, Cap, Cap>>
    @@ "var_movement_eye_level_max" :>   \* patch.py:244
        <<193, 225, 12, 3, 193, 163, Cap, Cap, Cap, Cap>>
    @@ "var_movement_eye_level_min" :>   \* patch.py:247
        <<131, 248, 0, 116, 31, 232, Dot, Dot, Dot, Dot, 43, 5, Cap, Cap, Cap,
          Cap>>
    @@ "var_movement_eye_level_restore" :>   \* patch.py:252
        <<43, 208, 137, 21, Cap, Cap, Cap, Cap>>
    @@ "var_using_alien_abductor" :>   \* patch.py:263
        <<136, 69, 252, 246, 69, 252, 2, 117, 5, 232, Dot, Dot, Dot, Dot, 232,
          Dot, Dot, Dot, Dot, 198, 5, Cap, Cap, Cap, Cap, 1>>
    @@ "var_abductor_state" :>   \* patch.py:268
        <<139, 69, 240, 128, 136, Dot, Dot, Dot, Dot, 2, 128, 61, Cap, Cap,
          Cap, Cap, 2>>
    @@ "var_abductor_dpad" :>   \* patch.py:273
        <<247, 216, 137, 69, 248, 246, 5, Cap, Cap, Cap, Cap, 4>>
    @@ "var_fake_key_input" :>   \* patch.py:278
        <<199, 69, 244, 0, 0, 0, 0, 199, 69, 252, Cap, Cap, Cap, Cap, 139, 69,
          252>>
    @@ "var_mouse_unbounded_x_mod" :>   \* patch.py:283
        <<233, 31, 2, 0, 0, 199, 69, 252, 12, 0, 0, 0, 102, 199, 5, Cap, Cap,
          Cap, Cap, 0, 0, 102, 199, 5, Dot, Dot, Dot, Dot, 0, 0>>
    @@ "var_mouse_unbounded_y_mod" :>   \* patch.py:288
        <<233, 31, 2, 0, 0, 199, 69, 252, 12, 0, 0, 0, 102, 199, 5, Dot, Dot,
          Dot, Dot, 0, 0, 102, 199, 5, Cap, Cap, Cap, Cap, 0, 0>>
    @@ "mouselook_offset" :>   \* patch.py:325
        <<139, 194, 51, 237, 3, 5, Dot, Dot, Dot, Dot, 139, 216>>
    @@ "wasd_offset" :>   \* patch.py:460
        <<128, 61, Dot, Dot, Dot, Dot, 0, 15, 132, 147, 0, 0, 0, 51, 192>>
    @@ "wasd_rejoin" :>   \* patch.py:466
        <<15, 182, 29, Dot, Dot, Dot, Dot, 128, 163, Dot, Dot, Dot, Dot, 1,
          15, 182, 29, Dot, Dot, Dot, Dot, 128, 163, Dot, Dot, Dot, Dot, 1,
          15, 182, 29, Dot, Dot, Dot, Dot, 128, 163, Dot, Dot, Dot, Dot, 1,
          15, 182, 29, Dot, Dot, Dot, Dot, 128, 163, Dot, Dot, Dot, Dot, 1,
          15, 182, 29, Dot, Dot, Dot, Dot, 128, 163, Dot, Dot, Dot, Dot, 1,
          15, 182, 29, Dot, Dot, Dot, Dot, 128, 163, Dot, Dot, Dot, Dot, 1,
          15, 182, 29, Dot, Dot, Dot, Dot, 128, 163, Dot, Dot, Dot, Dot, 1>>
    @@ "rkey_mod_offset" :>   \* patch.py:607
        <<15, 182, 29, Dot, Dot, Dot, Dot, 246, 131, Dot, Dot, Dot, Dot, 1,
          117, 12, 102, 185, 2, 0, 42, 13, Dot, Dot, Dot, Dot, 211, 248>>
    @@ "crouch_mod_offset" :>   \* patch.py:692
        <<15, 182, 5, Dot, Dot, Dot, Dot, 15, 182, 29, Dot, Dot, Dot, Dot,
          246, 128, Dot, Dot, Dot, Dot, 3>>
    @@ "interactive_draw_frame_offset/UAKM" :>   \* patch.py:891
        <<58, 5, Dot, Dot, Dot, Dot, 116, 34>>
    @@ "call1_offset/UAKM" :>   \* patch.py:894
        <<232, Dot, Dot, Dot, Dot, 156, 15, 182, 192>>
    @@ "interactive_draw_frame_offset/TPD" :>   \* patch.py:902
        <<6, 96, 102, 199, 5, Dot, Dot, Dot, Dot, 0, 0, 168, 1>>
    @@ "call1_offset/TPD" :>   \* patch.py:908
        <<232, Dot, Dot, Dot, Dot, 137, 69, 248, 184, Dot, Dot, Dot, Dot>>
    @@ "call2_offset" :>   \* patch.py:915
        <<232, Dot, Dot, Dot, Dot, 137, 69, 244, 184, Dot, Dot, Dot, Dot>>
    @@ "abductor_offset" :>   \* patch.py:1031
        <<83, 81, 82, 86, 87, 85, 137, 229, 129, 236, 12, 0, 0, 0, 235, 16>>
    @@ "abductor_hoverup_offset" :>   \* patch.py:1216
        <<128, 136, Dot, Dot, Dot, Dot, 2, 198, 5, Dot, Dot, Dot, Dot, 0, 198,
          5, Dot, Dot, Dot, Dot, 0, 49, 192, 232, Dot, Dot, Dot, Dot, 128, 61,
          Dot, Dot, Dot, Dot, 0, 116, 30, 232, Dot, Dot, Dot, Dot, 186, 1, 0,
          0, 0, 184, 4, 0, 0, 0>>
    @@ "abductor_hoverdown_offset" :>   \* patch.py:1235
        <<128, 136, Dot, Dot, Dot, Dot, 2, 198, 5, Dot, Dot, Dot, Dot, 0, 198,
          5, Dot, Dot, Dot, Dot, 0, 49, 192, 232, Dot, Dot, Dot, Dot, 128, 61,
          Dot, Dot, Dot, Dot, 0, 116, 30, 232, Dot, Dot, Dot, Dot, 186, 1, 0,
          0, 0, 184, 5, 0, 0, 0>>
    @@ "credit_offset" :>   \* patch.py:1256
        <<97, 110, 100, 32, 100, 101, 118, 101, 108, 111, 112, 101, 100, 32,
          98, 121>>

\* patch.py:1259
credit_data ==
    <<40, 99, 41, 32, 49, 57, 57, 51, 46, 32, 32, 32, 32, 32, 32, 32, 32,
      13, 77, 111, 117, 115, 101, 108, 111, 111, 107, 32, 118, 49, 46, 50,
      32, 40, 99, 41, 32, 50, 48, 50, 53, 32, 109, 111, 114, 97, 108, 114,
      101, 99, 111, 114, 100, 105, 110, 103, 115, 46, 32, 32, 32, 32, 13,
      32, 32, 32, 32, 32, 32, 32, 32, 32, 32, 32, 32, 32, 32, 32, 32, 32,
      32, 32, 32, 32, 32, 32, 32, 32, 32, 32, 32, 32, 32, 32, 32>>

Offset(label, delta) == FindOffsetOn(PATTERN[label], grep_result[label], delta)

Variable(label) == FindVariableOn(PATTERN[label], grep_result[label])

Patch(code, offset) == [code |-> code, offset |-> offset]

\* A local that is None or was never assigned has no entry in env.
Bind(e, k, v) == (k :> v) @@ e

Truthy(e, k) == k \in DOMAIN e /\ e[k] # 0

UAKM == "Under a Killing Moon"

TPD == "The Pandora Directive"

VarsCommon ==
    <<"var_movement_rot_angle", "var_movement_tilt_angle",
      "var_movement_tilt_angle_last", "var_movement_tilt_angle_bottom",
      "var_movement_tilt_angle_top", "var_movement_strafe", "var_keyboard_state",
      "var_movement_fwd_veloc_world", "var_movement_strafe_veloc_world",
      "var_movement_eye_level_incr", "var_movement_eye_level",
      "var_movement_eye_level_max", "var_movement_eye_level_min",
      "var_movement_eye_level_restore">>

VarsPandora ==
    <<"var_using_alien_abductor", "var_abductor_state", "var_abductor_dpad",
      "var_fake_key_input", "var_mouse_unbounded_x_mod",
      "var_mouse_unbounded_y_mod">>

\* find_variable for order[i..], binding each result until one raises.
RECURSIVE FindVariables(_, _, _)
FindVariables(order, i, e) ==
    IF i > Len(order) THEN [ok |-> TRUE, env |-> e]
    ELSE LET r == Variable(order[i])
         IN  IF ~r.ok THEN [ok |-> FALSE, env |-> e]
             ELSE FindVariables(order, i + 1, Bind(e, order[i], r.value))

\* patch.py:333
invert_code(invert_y) == IF ~invert_y THEN <<>> ELSE <<I(<<247, 216>>)>>

\* patch.py:482-491
abductor_prefix_wasd(using) ==
    IF ~using THEN <<>>
    ELSE <<M(<<128, 61>>, "var_using_alien_abductor", 0, <<0>>),
           Jcc(117, "label_skip")>>

\* patch.py:706-715
abductor_prefix_crouch(using) ==
    IF ~using THEN <<>>
    ELSE <<M(<<128, 61>>, "var_using_alien_abductor", 0, <<0>>),
           Jcc(116, "label_start"),
           RETND>>

\* The encoded blocks; their layout does not depend on the addresses.
MOUSELOOK == [b \in BOOLEAN |-> Encode32(mouselook_instrs(invert_code(b)))]

WASD == [b \in BOOLEAN |-> Encode32(wasd_instrs(abductor_prefix_wasd(b)))]

CROUCH == [b \in BOOLEAN |-> Encode32(crouch_instrs(abductor_prefix_crouch(b)))]

VSYNC == Encode32(vsync_instrs)

ABDUCTOR == Encode32(abductor_instrs)

NOPS(n) == Resolved(Encode32(Repeat(NOPD, n)), <<>>)

\* One step of the catalogue: the locals it leaves behind.
Step(next_pc, new_env, new_code, new_data) ==
    /\ pc' = next_pc
    /\ env' = new_env
    /\ CODE_PATCHES' = new_code
    /\ DATA_PATCHES' = new_data
    /\ UNCHANGED <<mode, codecVars, findVars, le_header, fixup_records, page_data,
                   napplied, ndata, f, args, grep_result, mz_off, le_off, game,
                   out_open, out>>

RaiseAndGoOn(e, code) == Step("apply", e, code, DATA_PATCHES)

\* raise DataNotFound: patch() ends with the locals as they are
Raise(e, code) == Step("error", e, code, DATA_PATCHES)

\* lines 170-188
FixSpeed ==
    /\ mode = "patch"
    /\ pc = "fix_speed"
    /\ IF ~args.fix_speed THEN Step("variables", env, CODE_PATCHES, DATA_PATCHES)
       ELSE LET r == Offset("fix_speed_offset", 5)
            IN  IF ~r.ok THEN Raise(env, CODE_PATCHES)
                ELSE Step("variables", Bind(env, "fix_speed_offset", r.value),
                          Append(CODE_PATCHES, Patch(NOPS(7), r.value)),
                          DATA_PATCHES)

\* lines 190-292
Variables ==
    /\ mode = "patch"
    /\ pc = "variables"
    /\ IF ~args.mouselook THEN Step("credits", env, CODE_PATCHES, DATA_PATCHES)
       ELSE LET common  == FindVariables(VarsCommon, 1, env)
                pandora == IF game = TPD
                           THEN FindVariables(VarsPandora, 1, common.env)
                           ELSE common
            IN  IF ~common.ok THEN Raise(common.env, CODE_PATCHES)
                ELSE IF ~pandora.ok THEN Raise(pandora.env, CODE_PATCHES)
                ELSE Step("mouselook", pandora.env, CODE_PATCHES, DATA_PATCHES)

\* lines 325-396
Mouselook ==
    /\ mode = "patch"
    /\ pc = "mouselook"
    /\ LET r == Offset("mouselook_offset", 0)
       IN  IF ~r.ok THEN Raise(env, CODE_PATCHES)
           ELSE Step("wasd", Bind(env, "mouselook_offset", r.value),
                     Append(CODE_PATCHES,
                            Patch(Resolved(MOUSELOOK[args.invert_y], env), r.value)),
                     DATA_PATCHES)

\* lines 460-602
Wasd ==
    /\ mode = "patch"
    /\ pc = "wasd"
    /\ LET o      == Offset("wasd_offset", 0)
           rj     == Offset("wasd_rejoin", 0)
           e1     == Bind(env, "wasd_offset", o.value)
           e2     == Bind(e1, "wasd_rejoin", rj.value)
           body   == Resolved(WASD[Truthy(env, "var_using_alien_abductor")], env)
           jmp    == BranchTo(rj.value - (o.value + Len(body)) - 5)
           wasd_mod_end == Len(body) + Len(jmp) + o.value
           fill   == NOPS(Max(rj.value - wasd_mod_end, 0))
       IN  IF ~o.ok THEN Raise(env, CODE_PATCHES)
           ELSE IF ~rj.ok THEN Raise(e1, CODE_PATCHES)
           ELSE Step("rkey", Bind(e2, "wasd_mod_end", wasd_mod_end),
                     Append(CODE_PATCHES, Patch(body \o jmp \o fill, o.value)),
                     DATA_PATCHES)

\* The R key block with a fill that runs on into the block after it.
RkeyLongFill ==
    /\ mode = "patch"
    /\ pc = "rkey"
    /\ LET r == Offset("rkey_mod_offset", 0)
       IN  IF ~r.ok THEN Raise(env, CODE_PATCHES)
           ELSE Step("crouch", Bind(env, "rkey_mod_offset", r.value),
                     Append(CODE_PATCHES, Patch(NOPS(48), r.value)), DATA_PATCHES)

\* lines 607-614
Rkey ==
    /\ mode = "patch"
    /\ pc = "rkey"
    /\ LET r == Offset("rkey_mod_offset", 0)
       IN  IF ~r.ok THEN Raise(env, CODE_PATCHES)
           ELSE Step("crouch", Bind(env, "rkey_mod_offset", r.value),
                     Append(CODE_PATCHES, Patch(NOPS(28), r.value)), DATA_PATCHES)

\* lines 692-853
Crouch ==
    /\ mode = "patch"
    /\ pc = "crouch"
    /\ LET r == Offset("crouch_mod_offset", 0)
       IN  IF ~r.ok THEN Raise(env, CODE_PATCHES)
           ELSE Step("vsync", Bind(env, "crouch_mod_offset", r.value),
                     Append(CODE_PATCHES,
                            Patch(Resolved(
                                      CROUCH[Truthy(env, "var_using_alien_abductor")],
                                      env),
                                  r.value)),
                     DATA_PATCHES)

\* b"\xe8" + utils.to_int32_le(vsync_offset - (call_offset + 5))
CallShim(vsync_offset, call_offset) ==
    <<232>> \o to_uint32_le(vsync_offset - (call_offset + 5))

\* lines 882-944
Vsync ==
    /\ mode = "patch"
    /\ pc = "vsync"
    /\ LET vsync_offset == env["wasd_mod_end"]
           suffix == IF game = UAKM THEN "/UAKM" ELSE "/TPD"
           frame  == Offset("interactive_draw_frame_offset" \o suffix, 0)
           call1  == Offset("call1_offset" \o suffix, 0)
           call2  == Offset("call2_offset", 0)
           e1     == Bind(env, "vsync_offset", vsync_offset)
           e2     == Bind(e1, "interactive_draw_frame_offset", frame.value)
           e3     == Bind(e2, "call1_offset", call1.value)
           e4     == IF game = TPD THEN Bind(e3, "call2_offset", call2.value) ELSE e3
           code1  == Append(CODE_PATCHES,
                            Patch(CallShim(vsync_offset, call1.value), call1.value))
           code2  == IF game = TPD
                     THEN Append(code1, Patch(CallShim(vsync_offset, call2.value),
                                              call2.value))
                     ELSE code1
           shim   == Resolved(VSYNC, env)
           vsync_instrs_all ==
               shim \o <<233>>
                    \o to_uint32_le(frame.value - (vsync_offset + Len(shim) + 5))
       IN  IF ~frame.ok THEN Raise(e1, CODE_PATCHES)
           ELSE IF ~call1.ok THEN Raise(e2, CODE_PATCHES)
           ELSE IF game = TPD /\ ~call2.ok THEN Raise(e3, code1)
           ELSE Step("abductor", e4,
                     Append(code2, Patch(vsync_instrs_all, vsync_offset)),
                     DATA_PATCHES)

\* lines 946-1252
Abductor ==
    /\ mode = "patch"
    /\ pc = "abductor"
    /\ IF ~(\A v \in {VarsPandora[i] : i \in DOMAIN VarsPandora} : Truthy(env, v))
       THEN Step("credits", env, CODE_PATCHES, DATA_PATCHES)
       ELSE LET a  == Offset("abductor_offset", 0)
                up == Offset("abductor_hoverup_offset", 0)
                dn == Offset("abductor_hoverdown_offset", 0)
                e1 == Bind(env, "abductor_offset", a.value)
                e2 == Bind(e1, "abductor_hoverup_offset", up.value)
                e3 == Bind(e2, "abductor_hoverdown_offset", dn.value)
                code1 == Append(CODE_PATCHES, Patch(Resolved(ABDUCTOR, env), a.value))
                code2 == Append(code1, Patch(NOPS(7), up.value))
                code3 == Append(code2, Patch(NOPS(7), dn.value))
            IN  IF ~a.ok THEN Raise(env, CODE_PATCHES)
                ELSE IF ~up.ok THEN Raise(e1, code1)
                ELSE IF ~dn.ok THEN Raise(e2, code2)
                ELSE Step("credits", e3, code3, DATA_PATCHES)

\* lines 1254-1262: the one search whose failure is caught
Credits ==
    /\ mode = "patch"
    /\ pc = "credits"
    /\ LET r == Offset("credit_offset", 0)
       IN  IF game = UAKM /\ r.ok
           THEN Step("apply", Bind(env, "credit_offset", r.value), CODE_PATCHES,
                     Append(DATA_PATCHES, Patch(credit_data, r.value)))
           ELSE Step("apply", env, CODE_PATCHES, DATA_PATCHES)

----------------------------------------------------------------------------
(* patch.py: patch(), writing the output (lines 1372-1413)                 *)

PatchFrame ==
    UNCHANGED <<mode, codecVars, findVars, fixup_records, page_data, CODE_PATCHES,
                DATA_PATCHES, napplied, ndata, f, args, grep_result, mz_off,
                le_off, game, env>>

\* lines 126-160
Parse ==
    /\ mode = "patch"
    /\ pc = "start"
    /\ LET p == Parsed(f)
       IN  IF p.status = "found"
           THEN /\ pc' = "detect"
                /\ mz_off' = p.mz_off
                /\ le_off' = p.le_off
                /\ le_header' = p.le_header
                /\ fixup_records' = p.fixup_records
                /\ page_data' = p.page_data
           ELSE /\ pc' = p.status
                /\ UNCHANGED <<mz_off, le_off, le_header, fixup_records, page_data>>
    /\ UNCHANGED <<mode, codecVars, findVars, CODE_PATCHES, DATA_PATCHES, napplied,
                   ndata, f, args, grep_result, game, env, out_open, out>>

\* line 165
Detect ==
    /\ mode = "patch"
    /\ pc = "detect"
    /\ LET d == detect_version(grep_result["VERSION_PATTERN"])
       IN  IF d.ok THEN pc' = "fix_speed" /\ game' = d.game
           ELSE pc' = "error" /\ game' = game
    /\ UNCHANGED <<mode, codecVars, findVars, le_header, fixup_records, page_data,
                   CODE_PATCHES, DATA_PATCHES, napplied, ndata, f, args, grep_result,
                   mz_off, le_off, env, out_open, out>>

\* line 1372: open(output, "wb") creates or truncates the output file
OpenOutput ==
    /\ mode = "patch"
    /\ pc = "apply"
    /\ napplied = Len(CODE_PATCHES)
    /\ ndata = Len(DATA_PATCHES)
    /\ pc' = "write"
    /\ out_open' = TRUE
    /\ UNCHANGED <<le_header, out>>
    /\ PatchFrame

\* fixup_page_table.offsets: the running total before and after every page
RECURSIVE Accumulate(_, _, _)
Accumulate(fixup_output, i, acc) ==
    IF i > Len(fixup_output) THEN <<acc>>
    ELSE <<acc>> \o Accumulate(fixup_output, i + 1, acc + Len(fixup_output[i]))

UpdateHeaderStaleProc(h, table_len, records_len, blob_len, mz, le) ==
    LET h1 == [h EXCEPT !.fixup_record_table_offset =
                            h.fixup_page_table_offset + table_len,
                        !.fixup_section_size = table_len + records_len,
                        !.fixup_section_csum = 0]
        h2 == [h1 EXCEPT !.import_module_table_offset =
                             h1.fixup_page_table_offset + h1.fixup_section_size]
    IN  [h2 EXCEPT !.data_pages_offset =
                       le + h2.import_module_table_offset + blob_len - mz]

\* lines 1387-1404: the six header fields the writer assigns, in order
UpdateHeader(h, table_len, records_len, blob_len, mz, le) ==
    LET h1 == [h EXCEPT !.fixup_record_table_offset =
                            h.fixup_page_table_offset + table_len,
                        !.fixup_section_size = table_len + records_len,
                        !.fixup_section_csum = 0]
        h2 == [h1 EXCEPT !.import_module_table_offset =
                             h1.fixup_page_table_offset + h1.fixup_section_size]
        h3 == [h2 EXCEPT !.import_proc_table_offset = h2.import_module_table_offset]
    IN  [h3 EXCEPT !.data_pages_offset =
                       le + h3.import_module_table_offset + blob_len - mz]

BlobFromProcTable(exe, h, mz, le) ==
    Slice(exe, le + h.import_proc_table_offset, le + (mz + h.data_pages_offset - le))

\* lines 1383-1385, read before the header is changed
post_fixup_blob(exe, h, mz, le) ==
    Slice(exe, le + h.import_module_table_offset,
          le + (mz + h.data_pages_offset - le))

WritesNoLoader(exe, le, h, table, records, blob, pages) ==
    Slice(exe, 0, le) \o export_data(h) \o table \o records \o blob \o pages

\* lines 1406-1413: the seven writes
Writes(exe, le, h, table, records, blob, pages) ==
    Slice(exe, 0, le)
        \o export_data(h)
        \o Slice(exe, le + get_size, le + h.fixup_page_table_offset)
        \o table
        \o records
        \o blob
        \o pages

\* A writer that also moves the non-resident name table offset by as much
\* as the data pages move.
WriteMovingNames ==
    /\ mode = "patch"
    /\ pc = "write"
    /\ LET encs == [p \in DOMAIN fixup_records |-> fixups_encode(fixup_records[p])]
           fixup_output == [p \in DOMAIN encs |-> encs[p].bytes]
           fixup_page_table_output == ExportOffsets(Accumulate(fixup_output, 1, 0))
           fixup_record_table_output == Concat(fixup_output)
           blob == post_fixup_blob(f, le_header, mz_off, le_off)
           h0 == UpdateHeader(le_header, Len(fixup_page_table_output),
                              Len(fixup_record_table_output), Len(blob), mz_off,
                              le_off)
           h == [h0 EXCEPT !.nonres_name_table_offset =
                               @ + h0.data_pages_offset - le_header.data_pages_offset]
       IN  IF \E p \in DOMAIN encs : ~encs[p].ok
           THEN pc' = "error" /\ UNCHANGED <<le_header, out>>
           ELSE /\ pc' = "done"
                /\ le_header' = h
                /\ out' = Writes(f, le_off, h, fixup_page_table_output,
                                 fixup_record_table_output, blob, page_data)
    /\ out_open' = out_open
    /\ PatchFrame

\* lines 1373-1413
Write ==
    /\ mode = "patch"
    /\ pc = "write"
    /\ LET encs == [p \in DOMAIN fixup_records |-> fixups_encode(fixup_records[p])]
           fixup_output == [p \in DOMAIN encs |-> encs[p].bytes]
           fixup_page_table_output == ExportOffsets(Accumulate(fixup_output, 1, 0))
           fixup_record_table_output == Concat(fixup_output)
           blob == post_fixup_blob(f, le_header, mz_off, le_off)
           h == UpdateHeader(le_header, Len(fixup_page_table_output),
                             Len(fixup_record_table_output), Len(blob), mz_off,
                             le_off)
       IN  IF \E p \in DOMAIN encs : ~encs[p].ok
           THEN pc' = "error" /\ UNCHANGED <<le_header, out>>
           ELSE /\ pc' = "done"
                /\ le_header' = h
                /\ out' = Writes(f, le_off, h, fixup_page_table_output,
                                 fixup_record_table_output, blob, page_data)
    /\ out_open' = out_open
    /\ PatchFrame

----------------------------------------------------------------------------
(* Patcher development: patch() run on a family of input executables.      *)
(*                                                                         *)
(* An input is a DOS stub chain, the 64-byte header that holds the LE, the *)
(* LE header, the loader section, the fixup page table, the fixup records, *)
(* the blob up to the data pages, and the pages.  The cases vary the stub  *)
(* chain, the fixup section (checksum, import procedure table offset,      *)
(* slack before and after the records, section size), the records, the     *)
(* title screen, the                                                       *)
(* three options, the distance between the two WASD anchors, a variable at *)
(* address 0, and one search that finds nothing or finds two matches.      *)

Geometry == [page_size |-> 256, short |-> 24, loader |-> <<9, 9, 9>>,
             blob |-> <<1, 2, 3, 4>>]

AllVars == VarsCommon \o VarsPandora

OffsetLabels ==
    {"fix_speed_offset", "mouselook_offset", "wasd_offset", "wasd_rejoin",
     "rkey_mod_offset", "crouch_mod_offset", "interactive_draw_frame_offset/UAKM",
     "call1_offset/UAKM", "interactive_draw_frame_offset/TPD", "call1_offset/TPD",
     "call2_offset", "abductor_offset", "abductor_hoverup_offset",
     "abductor_hoverdown_offset", "credit_offset"}

VarLabels == {AllVars[i] : i \in DOMAIN AllVars}

PandoraOnly ==
    {VarsPandora[i] : i \in DOMAIN VarsPandora}
        \cup {"interactive_draw_frame_offset/TPD", "call1_offset/TPD", "call2_offset",
              "abductor_offset", "abductor_hoverup_offset",
              "abductor_hoverdown_offset"}

KillingMoonOnly ==
    {"interactive_draw_frame_offset/UAKM", "call1_offset/UAKM", "credit_offset"}

\* The address every variable has in the input.
VarAddr(label) == 126976 + 16 * (CHOOSE i \in DOMAIN AllVars : AllVars[i] = label)

\* Where every pattern sits in the pages.
StartOf(label, rejoin) ==
    CASE label = "fix_speed_offset" -> 8
      [] label = "mouselook_offset" -> 32
      [] label = "wasd_offset" -> 100
      [] label = "wasd_rejoin" -> 100 + rejoin
      [] label = "rkey_mod_offset" -> 310
      [] label = "crouch_mod_offset" -> 350
      [] label \in {"interactive_draw_frame_offset/UAKM",
                    "interactive_draw_frame_offset/TPD"} -> 540
      [] label \in {"call1_offset/UAKM", "call1_offset/TPD"} -> 560
      [] label = "call2_offset" -> 580
      [] label = "abductor_offset" -> 600
      [] label = "abductor_hoverup_offset" -> 830
      [] label = "abductor_hoverdown_offset" -> 850
      [] label = "credit_offset" -> 900
      [] OTHER -> 870 + (CHOOSE i \in DOMAIN AllVars : AllVars[i] = label)

NoFault == [label |-> "", kind |-> ""]

Faults ==
    {[label |-> l, kind |-> k] :
        l \in OffsetLabels \cup VarLabels, k \in {"missing", "multiple"}}

\* What utils.grep reports for every pattern on the pages of case c.
Oracle(c) ==
    [l \in OffsetLabels \cup VarLabels \cup {"VERSION_PATTERN"} |->
        LET m == [start |-> StartOf(l, c.rejoin),
                  group |-> IF l \in VarLabels
                            THEN to_uint32_le(IF l = c.zero THEN 0 ELSE VarAddr(l))
                            ELSE <<>>]
        IN  IF l = "VERSION_PATTERN"
            THEN (IF c.title = "" THEN <<>>
                  ELSE <<[start |-> 960, group |-> c.title]>>)
            ELSE IF (c.title # TPD /\ l \in PandoraOnly)
                    \/ (c.title # UAKM /\ l \in KillingMoonOnly)
            THEN <<>>
            ELSE IF c.fault.label = l
            THEN (IF c.fault.kind = "missing" THEN <<>>
                  ELSE <<m, [m EXCEPT !.start = m.start + 1]>>)
            ELSE <<m>>]

\* The 64 bytes of a DOS header.
DosHeader(sig, last_page_bytes, page_count, reloc, code32_start) ==
    sig \o to_uint16_le(last_page_bytes) \o to_uint16_le(page_count)
        \o [i \in 1..18 |-> 0] \o to_uint16_le(reloc)
        \o [i \in 1..34 |-> 0] \o to_uint16_le(code32_start) \o <<0, 0>>

StubChain(stub) ==
    CASE stub = "MZ" -> DosHeader(MZ, 64, 1, 28, 0)
      [] stub = "BW" -> DosHeader(BW, 64, 0, 64, 0)
      [] stub = "MZBW" -> DosHeader(MZ, 64, 1, 28, 0) \o DosHeader(BW, 64, 0, 64, 0)
      [] OTHER -> <<>>

\* Addresses in the pages that carry a fixup in the input.
Sites == {15, 34, 102, 250, 262, 280, 312, 352, 500, 545, 562, 582, 602, 700,
          832, 852, 905}

SiteRecords(page, page_size) ==
    LET here == {a \in Sites : a \div page_size = page}
        RECURSIVE Wire(_)
        Wire(S) ==
            IF S = {} THEN <<>>
            ELSE LET a == CHOOSE x \in S : \A y \in S : x <= y
                 IN  WireRecord(7, 16, <<a % page_size, 3, to_uint32_le(126976 + a)>>)
                         \o Wire(S \ {a})
    IN  Wire(here)

\* The record bytes of every page: none, or the sites plus one record of
\* each other shape (a selector, a 16-bit target, a source that starts on
\* the page before).
InputRecords(fixups, pages, page_size) ==
    [p \in 1..pages |->
        IF fixups = "none" THEN <<>>
        ELSE SiteRecords(p - 1, page_size)
                 \o (CASE p = 1 -> WireRecord(2, 0, <<200, 1, <<0, 0, 0, 0>>>>)
                       [] p = 2 -> WireRecord(5, 0, <<210, 3, <<52, 18, 0, 0>>>>)
                                       \o WireRecord(7, 16, <<65534, 3,
                                                              <<0, 240, 1, 0>>>>)
                       [] OTHER -> <<>>)]

InputHeader(c, pages, fpto, frto, imto, dpo) ==
    [[n \in FieldNames |-> 3 * FieldIndex(n)] EXCEPT
        !.magic = MagicLE,
        !.module_num_pages = pages,
        !.page_size = Geometry.page_size,
        !.fixup_section_size = imto - fpto + c.fss,
        !.fixup_section_csum = c.csum,
        !.loader_section_size = fpto - get_size,
        !.fixup_page_table_offset = fpto,
        !.fixup_record_table_offset = frto,
        !.import_module_table_offset = imto,
        !.import_proc_table_offset = imto + c.iproc,
        !.data_pages_offset = dpo]

Slack(n) == [i \in 1..n |-> 170]

\* The fixup page table of the input: where every page's records start, and
\* where the last page's end.
InputTable(records) ==
    Concat([i \in 1..(Len(records) + 1) |->
               to_uint32_le(Len(Concat(SubSeq(records, 1, i - 1))))])

\* The pages: every page whole but the last.
InputPages ==
    [i \in 1..((NumPages + 1) * Geometry.page_size - Geometry.short) |-> (7 * i) % 251]

BuildExe(c) ==
    LET pages   == NumPages + 1
        stub    == StubChain(c.stub)
        records == InputRecords(c.fixups, pages, Geometry.page_size)
        fpto    == get_size + Len(Geometry.loader)
        frto    == fpto + 4 * (pages + 1) + c.gap1
        imto    == frto + Len(Concat(records)) + c.gap2
        dpo     == 64 + imto + Len(Geometry.blob)
    IN  stub
          \o DosHeader(IF c.stub = "" THEN MZ ELSE BW, 0, 0, 64, 64)
          \o export_data(InputHeader(c, pages, fpto, frto, imto, dpo))
          \o Geometry.loader
          \o InputTable(records)
          \o Slack(c.gap1)
          \o Concat(records)
          \o Slack(c.gap2)
          \o Geometry.blob
          \o InputPages

Canonical ==
    [stub |-> "", csum |-> 0, iproc |-> 0, gap1 |-> 0, gap2 |-> 0, fss |-> 0]

Shapes ==
    {Canonical,
     [Canonical EXCEPT !.stub = "MZ"],
     [Canonical EXCEPT !.stub = "MZBW"],
     [Canonical EXCEPT !.csum = 4660],
     [Canonical EXCEPT !.iproc = 8],
     [Canonical EXCEPT !.gap1 = 2],
     [Canonical EXCEPT !.gap2 = 3],
     [Canonical EXCEPT !.fss = 1]}

Options ==
    {[fix_speed |-> a, mouselook |-> b, invert_y |-> b /\ i] :
        a \in BOOLEAN, b \in BOOLEAN, i \in BOOLEAN}

RejoinSet == {160, 200}

ZeroSet == {"", "var_using_alien_abductor", "var_abductor_dpad"}

Case(shape, fixups, title, options, rejoin, zero, fault) ==
    [stub |-> shape.stub, csum |-> shape.csum, iproc |-> shape.iproc,
     gap1 |-> shape.gap1, gap2 |-> shape.gap2, fss |-> shape.fss, fixups |-> fixups,
     title |-> title,
     args |-> options, rejoin |-> rejoin, zero |-> zero, fault |-> fault]

AllOn == [fix_speed |-> TRUE, mouselook |-> TRUE, invert_y |-> FALSE]

Cases ==
    {Case(s, "sites", t, o, 200, "", NoFault) :
        s \in Shapes, t \in Titles, o \in Options}
    \cup {Case(Canonical, x, t, o, r, z, NoFault) :
            x \in {"none", "sites"}, t \in Titles, o \in Options, r \in RejoinSet,
            z \in ZeroSet}
    \cup {Case(Canonical, "sites", t, AllOn, 200, "", flt) :
            t \in Titles, flt \in Faults}
    \cup {Case(Canonical, "sites", t, o, 200, "", NoFault) :
            t \in {"", "Under a Killing Moon "}, o \in Options}

PatchInit ==
    /\ mode = "patch"
    /\ CodecIdle
    /\ FindIdle
    /\ \E c \in Cases :
          /\ f = BuildExe(c)
          /\ args = c.args
          /\ grep_result = Oracle(c)
    /\ pc = "start"
    /\ le_header = [page_size |-> 0]
    /\ fixup_records = <<>>
    /\ page_data = <<>>
    /\ CODE_PATCHES = <<>>
    /\ DATA_PATCHES = <<>>
    /\ napplied = 0
    /\ ndata = 0
    /\ mz_off = 0
    /\ le_off = 0
    /\ game = ""
    /\ env = <<>>
    /\ out_open = FALSE
    /\ out = <<>>

PatchNext ==
    \/ Parse
    \/ Detect
    \/ FixSpeed
    \/ Variables
    \/ Mouselook
    \/ Wasd
    \/ Rkey
    \/ Crouch
    \/ Vsync
    \/ Abductor
    \/ Credits
    \/ ApplyCodePatch
    \/ ApplyDataPatch
    \/ OpenOutput
    \/ Write

SpecPatch == PatchInit /\ [][PatchNext]_vars

----------------------------------------------------------------------------
(* Claims about the written file, checked under SpecPatch                  *)

Done == mode = "patch" /\ pc = "done"

\* The header as a reader of the input, or of the output, finds it.
InHeader == LEHeader(Slice(f, le_off, Len(f))).header

OutHeader == LEHeader(Slice(out, le_off, Len(out))).header

\* The serialized fixup list of every page, as the writer emits it.
EncodedLists == [p \in DOMAIN fixup_records |-> fixups_encode(fixup_records[p]).bytes]

\* The fixup page table a reader finds in the output: the dwords between
\* the page table offset and the record table offset.
OutTable ==
    FixupPageTable(Slice(out, le_off + OutHeader.fixup_page_table_offset,
                         le_off + OutHeader.fixup_record_table_offset))

\* C3: in the header of the written file, whatever patches were applied, the
\* record table starts right after the 4 * (module_num_pages + 1) bytes of
\* the page table, the fixup section size is the length of the two tables,
\* the import module table starts right after the fixup section, the import
\* procedure table offset equals the import module table offset, and the
\* fixup section checksum is 0.
C3_HeaderOffsets ==
    Done =>
        LET h == OutHeader
            page_table_bytes == 4 * (h.module_num_pages + 1)
            record_bytes == Len(Concat(EncodedLists))
        IN  /\ Len(fixup_records) = h.module_num_pages
            /\ h.fixup_record_table_offset
                   = h.fixup_page_table_offset + page_table_bytes
            /\ h.fixup_section_size = page_table_bytes + record_bytes
            /\ h.import_module_table_offset
                   = h.fixup_page_table_offset + h.fixup_section_size
            /\ h.import_proc_table_offset = h.import_module_table_offset
            /\ h.fixup_section_csum = 0

\* A run of every Killing Moon patch on an input whose checksum was not 0
\* and whose record table grew.
C3_Witness ==
    /\ Done
    /\ game = UAKM
    /\ napplied = 7
    /\ InHeader.fixup_section_csum = 4660
    /\ OutHeader.fixup_section_csum = 0
    /\ OutHeader.fixup_section_size > InHeader.fixup_section_size

\* C4: the fixup page table of the written file has module_num_pages + 1
\* entries, starts at 0, never decreases, steps from entry i to entry i + 1
\* by the encoded length of page i's fixup list, and ends at the total length
\* of the serialized records.
C4_PageTable ==
    Done =>
        LET t == OutTable
            n == OutHeader.module_num_pages
        IN  /\ Len(t) = n + 1
            /\ t[1] = 0
            /\ \A i \in 1..n : t[i] <= t[i + 1]
            /\ \A i \in 1..n : t[i + 1] - t[i] = Len(EncodedLists[i])
            /\ t[n + 1] = Len(Concat(EncodedLists))

\* A written table of a patched file with a page list that is not empty
\* before one that is.
C4_Witness ==
    /\ Done
    /\ napplied > 0
    /\ \E i \in 1..(Len(OutTable) - 2) :
          /\ OutTable[i + 1] > OutTable[i]
          /\ OutTable[i + 2] = OutTable[i + 1]

\* The input bytes from the import module table to the data pages.
InBlob ==
    Slice(f, le_off + InHeader.import_module_table_offset,
          mz_off + InHeader.data_pages_offset)

StartsAt(buf, at, part) == Slice(buf, at, at + Len(part)) = part

\* C5: in the written file the rebuilt page table starts at le_off plus the
\* page table offset, the rebuilt records at le_off plus the new record
\* table offset, the blob the input held between its import module table
\* and its data pages at le_off plus the new import module table offset, and
\* the patched pages run from mz_off plus the new data pages offset to the
\* end; the bytes before le_off and the loader section are the input's.
C5_OutputLayout ==
    Done =>
        LET h == OutHeader
        IN  /\ Slice(out, 0, le_off) = Slice(f, 0, le_off)
            /\ Slice(out, le_off + get_size, le_off + h.fixup_page_table_offset)
                   = Slice(f, le_off + get_size,
                           le_off + InHeader.fixup_page_table_offset)
            /\ StartsAt(out, le_off + h.fixup_page_table_offset,
                        ExportOffsets(Accumulate(EncodedLists, 1, 0)))
            /\ StartsAt(out, le_off + h.fixup_record_table_offset,
                        Concat(EncodedLists))
            /\ StartsAt(out, le_off + h.import_module_table_offset, InBlob)
            /\ Slice(out, mz_off + h.data_pages_offset, Len(out)) = page_data

\* A patched file behind a stub chain, so that mz_off, le_off and 0 differ,
\* whose blob moved.
C5_Witness ==
    /\ Done
    /\ napplied > 0
    /\ mz_off > 0
    /\ InBlob # <<>>
    /\ OutHeader.import_module_table_offset # InHeader.import_module_table_offset
    /\ page_data # Slice(f, mz_off + InHeader.data_pages_offset, Len(f))

NullPatch == ~args.fix_speed /\ ~args.mouselook /\ ~args.invert_y

\* Position i of the file lies in the spliced credit string.
InCredit(i) ==
    /\ game = UAKM
    /\ DATA_PATCHES # <<>>
    /\ LET at == mz_off + InHeader.data_pages_offset + DATA_PATCHES[1].offset
       IN  at <= i /\ i < at + Len(DATA_PATCHES[1].code)

IdenticalButCredit ==
    /\ Len(out) = Len(f)
    /\ \A i \in 0..(Len(f) - 1) : InCredit(i) \/ At(out, i) = At(f, i)

\* The fixup section of the input already has the form the writer gives it.
InputTableOf ==
    FixupPageTable(Slice(f, le_off + InHeader.fixup_page_table_offset,
                         le_off + InHeader.fixup_page_table_offset
                             + 4 * (InHeader.module_num_pages + 1)))

CanonicalFixupSection ==
    LET h == InHeader
        n == h.module_num_pages
        t == InputTableOf
    IN  /\ h.fixup_section_csum = 0
        /\ h.import_proc_table_offset = h.import_module_table_offset
        /\ h.fixup_record_table_offset = h.fixup_page_table_offset + 4 * (n + 1)
        /\ h.fixup_section_size
               = h.import_module_table_offset - h.fixup_page_table_offset
        /\ t[1] = 0
        /\ \A i \in 1..n : t[i] <= t[i + 1]
        /\ h.import_module_table_offset = h.fixup_record_table_offset + t[n + 1]

\* C6 as stated: with the three options off the written file is the input
\* byte for byte, but for the credit string of Under a Killing Moon, for any
\* input that parses.
C6_NullPatchIdentity == (Done /\ NullPatch) => IdenticalButCredit

\* C6 amended: with the three options off the written file is the input
\* byte for byte, but for the credit string of Under a Killing Moon, when
\* the fixup section of the input is already in the writer's form: checksum
\* 0, import procedure table offset equal to the import module table offset,
\* records right after the page table, import module table right after the
\* records, section size equal to the two tables, page table from 0 upward.
C6_NullPatchIdentityCanonical ==
    (Done /\ NullPatch /\ CanonicalFixupSection) => IdenticalButCredit

\* A Killing Moon file with records, rewritten with only its credits changed.
C6_Witness ==
    /\ Done
    /\ NullPatch
    /\ CanonicalFixupSection
    /\ game = UAKM
    /\ ndata = 1
    /\ out # f
    /\ Concat(EncodedLists) # <<>>
    /\ IdenticalButCredit

\* C7: when no code patch is listed, the fixup page table and records of
\* the written file decode, page by page and in order, to the records
\* decoded from the input.
C7_FixupsKept ==
    (Done /\ CODE_PATCHES = <<>>) =>
        /\ Parsed(out).status = "found"
        /\ Parsed(out).fixup_records = Parsed(f).fixup_records

\* A file with records on several pages and slack in its fixup section,
\* rewritten with a data patch and no code patch.
C7_Witness ==
    /\ Done
    /\ CODE_PATCHES = <<>>
    /\ ndata = 1
    /\ InHeader.fixup_record_table_offset
           > InHeader.fixup_page_table_offset + 4 * (InHeader.module_num_pages + 1)
    /\ Len(Parsed(out).fixup_records[1]) > 1
    /\ Len(Parsed(out).fixup_records[2]) > 1
    /\ out # f

----------------------------------------------------------------------------
(* Claim about the searches, checked under SpecPatch                       *)

\* The searches patch() makes for the options, before any of them fails.
Searched ==
    (IF args.fix_speed THEN {"fix_speed_offset"} ELSE {})
    \cup (IF ~args.mouselook THEN {}
          ELSE (IF game = TPD THEN VarLabels
                ELSE {VarsCommon[i] : i \in DOMAIN VarsCommon})
               \cup {"mouselook_offset", "wasd_offset", "wasd_rejoin",
                     "rkey_mod_offset", "crouch_mod_offset"}
               \cup (IF game = TPD
                     THEN {"interactive_draw_frame_offset/TPD", "call1_offset/TPD",
                           "call2_offset"}
                     ELSE {"interactive_draw_frame_offset/UAKM", "call1_offset/UAKM"})
               \cup (IF game = TPD
                        /\ \A v \in (PandoraOnly \cap VarLabels) :
                              /\ Len(grep_result[v]) = 1
                              /\ grep_result[v][1].group # <<0, 0, 0, 0>>
                     THEN {"abductor_offset", "abductor_hoverup_offset",
                           "abductor_hoverdown_offset"}
                     ELSE {}))

Unresolved == \E l \in Searched : Len(grep_result[l]) # 1

\* The searches in the order patch() makes them; the error comes last.
StepRank ==
    [fix_speed |-> 1, variables |-> 2, mouselook |-> 3, wasd |-> 4, rkey |-> 5,
     crouch |-> 6, vsync |-> 7, abductor |-> 8, credits |-> 9, error |-> 10]

Searching == mode = "patch" /\ pc \in DOMAIN StepRank \ {"error"}

\* C10: when a search made for an enabled option finds no match or several,
\* every step of the run leaves the output file unopened and empty, the
\* pages and the fixup lists as they were read and no patch applied, and
\* moves to a later search or stops in an error.
C10_AbortBeforeOutput ==
    [][(Searching /\ Unresolved) =>
          /\ pc' \in DOMAIN StepRank
          /\ StepRank[pc'] > StepRank[pc]
          /\ ~out_open'
          /\ out' = <<>>
          /\ napplied' = 0
          /\ page_data' = page_data
          /\ fixup_records' = fixup_records]_vars

\* A run that stopped at the last search of the Pandora catalogue, with ten
\* patches assembled and none applied.
C10_Witness ==
    /\ mode = "patch"
    /\ pc = "error"
    /\ game = TPD
    /\ Unresolved
    /\ Len(grep_result["abductor_hoverdown_offset"]) = 2
    /\ Len(CODE_PATCHES) = 10
    /\ napplied = 0
    /\ ~out_open
    /\ fixup_records[1] # <<>>

----------------------------------------------------------------------------
(* Claims about failed searches and the output file, under SpecPatch       *)

\* detect_version raises: no title screen, or a title that is not supported
DetectionFails ==
    \/ grep_result["VERSION_PATTERN"] = <<>>
    \/ grep_result["VERSION_PATTERN"][1].group \notin Titles

\* The search for the opening credits is made and does not find one match.
CreditsUnresolved ==
    /\ ~DetectionFails
    /\ grep_result["VERSION_PATTERN"][1].group = UAKM
    /\ Len(grep_result["credit_offset"]) # 1

NothingWritten == ~out_open /\ out = <<>> /\ pc \notin {"write", "done"}

\* C11 as stated: a failure of any search patch() makes, the search for the
\* opening credits included, ends the run with no output file written.
C11_AllSearchErrorsFatal ==
    (mode = "patch" /\ (DetectionFails \/ Unresolved \/ CreditsUnresolved))
        => NothingWritten

\* C11 amended: a failure of detect_version, of any find_variable or of any
\* find_offset other than the one for the opening credits ends the run with
\* no output file written and no patch applied; a failed search for the
\* opening credits is caught, and the run goes on to write the output
\* without the credits patch.
C11_SearchErrorsFatalButCredits ==
    mode = "patch" =>
        /\ (pc \notin {"start", "detect"} /\ DetectionFails) => pc \in {"error", "hang"}
        /\ (DetectionFails \/ Unresolved) => (NothingWritten /\ napplied = 0)
        /\ (CreditsUnresolved /\ ~Unresolved /\ pc \in {"apply", "write", "done"})
               => DATA_PATCHES = <<>>

\* Both ends of it: a run stopped by an unsupported title, and (next
\* definition) a run that wrote its output after the credits search failed.
C11_Witness ==
    /\ mode = "patch"
    /\ pc = "error"
    /\ DetectionFails
    /\ grep_result["VERSION_PATTERN"] # <<>>
    /\ game = ""
    /\ NothingWritten

C11_CreditsCaught ==
    /\ Done
    /\ CreditsUnresolved
    /\ out # <<>>
    /\ napplied > 0

\* The six header fields as the writer leaves them (lines 1387-1404).
HeaderRebuilt ==
    /\ le_header.fixup_section_csum = 0
    /\ le_header.import_proc_table_offset = le_header.import_module_table_offset
    /\ le_header.fixup_record_table_offset
           = le_header.fixup_page_table_offset + 4 * (le_header.module_num_pages + 1)
    /\ le_header.fixup_section_size
           = le_header.import_module_table_offset - le_header.fixup_page_table_offset

\* C12: the output file is open only once the fixup records are encoded,
\* the page table is rebuilt and the header fields are updated, and a run
\* that failed has not opened it.
C12_OpenAfterConstruction ==
    mode = "patch" =>
        /\ out_open => HeaderRebuilt
        /\ pc = "error" => ~out_open

----------------------------------------------------------------------------
(* Locator development: search_for_le on chains of DOS headers             *)

MaxChain == 2

\* The 64-byte headers of the chains.  Sizes are (last_page_bytes,
\* page_count): an MZ header advances by 64, 0 or -512 and a BW header by
\* 64, 0 or 512.  A header qualifies with 0x40 at 0x18 and 128 at 0x3c.
ChainHeaders ==
    {DosHeader(<<76, 69>>, 64, 1, 64, 128)}
    \cup {DosHeader(MZ, s[1], s[2], q[1], q[2]) :
            s \in {<<64, 1>>, <<0, 1>>, <<0, 0>>},
            q \in {<<64, 128>>, <<64, 0>>, <<0, 64>>}}
    \cup {DosHeader(BW, s[1], s[2], q[1], q[2]) :
            s \in {<<64, 0>>, <<0, 0>>, <<0, 1>>},
            q \in {<<64, 128>>, <<64, 0>>, <<0, 64>>}}

\* What follows the chain: nothing, 448 bytes of zeros, or an MZ header cut
\* short after its relocation table offset.
ChainTails ==
    {<<>>,
     [i \in 1..448 |-> 0],
     MZ \o [i \in 1..22 |-> 0] \o to_uint16_le(64)}

RECURSIVE Chains(_)
Chains(n) ==
    IF n = 0 THEN {<<>>}
    ELSE Chains(n - 1)
         \cup {c \o h : c \in {x \in Chains(n - 1) : Len(x) = 64 * (n - 1)},
                        h \in ChainHeaders}

LocateInit ==
    /\ mode = "locate"
    /\ CodecIdle
    /\ FindIdle
    /\ \E c \in Chains(MaxChain), t \in ChainTails : f = c \o t
    /\ pc = "start"
    /\ le_header = [page_size |-> 0]
    /\ fixup_records = <<>>
    /\ page_data = <<>>
    /\ CODE_PATCHES = <<>>
    /\ DATA_PATCHES = <<>>
    /\ napplied = 0
    /\ ndata = 0
    /\ args = [fix_speed |-> FALSE, mouselook |-> FALSE, invert_y |-> FALSE]
    /\ grep_result = <<>>
    /\ mz_off = 0
    /\ le_off = 0
    /\ game = ""
    /\ env = <<>>
    /\ out_open = FALSE
    /\ out = <<>>

\* mz_off, le_off = search_for_le(f)
Locate ==
    /\ mode = "locate"
    /\ pc = "start"
    /\ LET found == search_for_le(f)
       IN  /\ pc' = found.status
           /\ mz_off' = found.mz_off
           /\ le_off' = found.le_off
    /\ UNCHANGED <<mode, codecVars, findVars, le_header, fixup_records, page_data,
                   CODE_PATCHES, DATA_PATCHES, napplied, ndata, f, args, grep_result,
                   game, env, out_open, out>>

LocateNext == Locate

SpecLocate == LocateInit /\ [][LocateNext]_vars

Located == mode = "locate" /\ pc # "start"

\* The header chain rule on the bytes of the buffer: the header at cursor c
\* is the bytes at positions c .. c+63 that the buffer has.
ByteAt(exe, i) == IF i >= 0 /\ i < Len(exe) THEN exe[i + 1] ELSE None

WordAt(exe, i) ==
    IF ByteAt(exe, i) = None \/ ByteAt(exe, i + 1) = None THEN None
    ELSE ByteAt(exe, i) + 256 * ByteAt(exe, i + 1)

RECURSIVE ChainRule(_, _, _)
ChainRule(exe, c, visited) ==
    LET magic == <<ByteAt(exe, c), ByteAt(exe, c + 1)>>
        Stop(s) == [status |-> s, mz_off |-> 0, le_off |-> 0]
    IN  IF c >= Len(exe) THEN Stop("error")
        ELSE IF c \in visited THEN Stop("hang")
        ELSE IF magic # MZ /\ magic # BW THEN Stop("error")
        ELSE IF WordAt(exe, c + 24) = None THEN Stop("error")
        ELSE IF WordAt(exe, c + 24) = 64 /\ WordAt(exe, c + 60) = None
        THEN Stop("error")
        ELSE IF WordAt(exe, c + 24) = 64 /\ WordAt(exe, c + 60) # 0
        THEN [status |-> "found", mz_off |-> c, le_off |-> c + WordAt(exe, c + 60)]
        ELSE ChainRule(exe,
                       c + WordAt(exe, c + 4) * 512 + WordAt(exe, c + 2)
                         - (IF magic = MZ THEN 512 ELSE 0),
                       visited \cup {c})

\* C13: search_for_le returns, or raises, as the header chain rule does
\* from cursor 0: the pair of the first header that qualifies, an error at
\* the first cursor that holds neither MZ nor BW, an error once the cursor
\* is at or past the end of the buffer.
C13_HeaderChainRule ==
    Located =>
        LET r == ChainRule(f, 0, {})
        IN  /\ pc = r.status
            /\ mz_off = r.mz_off
            /\ le_off = r.le_off

\* The header at offset c qualifies: 0x40 at 0x18 and a nonzero word at 0x3c.
Qualifies(exe, c) ==
    /\ WordAt(exe, c + 24) = 64
    /\ WordAt(exe, c + 60) # None
    /\ WordAt(exe, c + 60) # 0

\* Where the MZ header at offset 0 sends the cursor.
InnerOff(exe) == WordAt(exe, 4) * 512 + WordAt(exe, 2) - 512

\* An MZ stub that does not qualify, followed by an MZ header that does.
StubThenMZ ==
    /\ Len(f) >= 64
    /\ SubSeq(f, 1, 2) = MZ
    /\ ~Qualifies(f, 0)
    /\ InnerOff(f) > 0
    /\ <<ByteAt(f, InnerOff(f)), ByteAt(f, InnerOff(f) + 1)>> = MZ
    /\ Qualifies(f, InnerOff(f))

\* C14 as stated: the first element returned is the offset of the outer stub.
C14_LocatorOuterStub ==
    (Located /\ StubThenMZ) =>
        /\ pc = "found"
        /\ mz_off = 0
        /\ le_off = InnerOff(f) + WordAt(f, InnerOff(f) + 60)

\* C14 amended: for an MZ stub that does not qualify followed by an MZ
\* header with relocation table offset 0x40 and nonzero code32_start,
\* search_for_le returns (inner_mz_off, inner_mz_off + code32_start): both
\* elements are taken from the inner header, the one that holds the LE.
C14_LocatorInnerHeader ==
    (Located /\ StubThenMZ) =>
        /\ pc = "found"
        /\ mz_off = InnerOff(f)
        /\ le_off = InnerOff(f) + WordAt(f, InnerOff(f) + 60)

C14_Witness ==
    /\ Located
    /\ StubThenMZ
    /\ pc = "found"
    /\ mz_off = 64
    /\ le_off = 192
    /\ Len(f) > 128

\* The input of scenario S6: an MZ header whose fields are all zero but for
\* 0x40 at 0x3c, then a BW header that qualifies.
ScenarioS6 ==
    /\ Len(f) >= 128
    /\ SubSeq(f, 1, 64) = DosHeader(MZ, 0, 0, 0, 64)
    /\ SubSeq(f, 65, 66) = BW
    /\ Qualifies(f, 64)

\* C15: on the input of S6 search_for_le goes on from the first header to
\* the BW header at 0x40 and returns the location that header gives.
C15_ScenarioS6 ==
    (Located /\ ScenarioS6) =>
        /\ pc = "found"
        /\ mz_off = 64
        /\ le_off = 64 + WordAt(f, 64 + 60)

----------------------------------------------------------------------------
(* Detection development: detect_version on title boxes                    *)

MaxPad == 3

LFCR == <<10, 13>>

CRLF == <<13, 10>>

Bytes(b, n) == [i \in 1..n |-> b]

\* The title box as the games print it: n bars, the title between a and b
\* spaces, the version between three and three.
TitleBox(n, e1, a, title, b, e2, ver) ==
    <<218>> \o Bytes(196, n) \o <<191>> \o e1
        \o <<179>> \o Bytes(32, a) \o title \o Bytes(32, b) \o <<179>> \o e2
        \o <<179>> \o Bytes(32, 3) \o AsciiVersion \o ver \o Bytes(32, 3) \o <<179>>

LanguageString == <<0>> \o AsciiEnglish \o <<0>> \o AsciiDigi

BoxTitles == {AsciiKillingMoon, AsciiPandora, AsciiOverseer}

DetectInputs ==
    {pre \o TitleBox(n, e1, a, t, b, e2, ver) \o post :
        pre \in {<<>>, <<0, 218>>}, n \in {0, 1, 3}, e1 \in {LFCR, CRLF, <<10>>},
        a \in 0..MaxPad, t \in BoxTitles, b \in 0..MaxPad,
        e2 \in {LFCR, CRLF, <<10>>}, ver \in {AsciiV102, AsciiV10},
        post \in {<<>>, LanguageString}}

DetectInit ==
    /\ mode = "detect"
    /\ CodecIdle
    /\ PatchIdle
    /\ fdata \in DetectInputs
    /\ fpattern = <<>>
    /\ fdelta = 0
    /\ fcall = "none"
    /\ fres = DetectionError

\* game, version, language = detect_version(page_data)
DetectVersion ==
    /\ mode = "detect"
    /\ fcall = "none"
    /\ fcall' = "detect_version"
    /\ fres' = detect_version_of(fdata)
    /\ UNCHANGED <<mode, codecVars, fdata, fpattern, fdelta, patchVars>>

DetectNext == DetectVersion

SpecDetect == DetectInit /\ [][DetectNext]_vars

Detected == mode = "detect" /\ fcall = "detect_version"

\* C16: on the buffer of scenario S1 (three bars, three spaces on either
\* side of 'Under a Killing Moon' and of 'Version 1.02', LF CR between the
\* lines, no language string) detect_version raises nothing and returns
\* ("Under a Killing Moon", "1.02", "UNKNOWN").
C16_ScenarioS1 ==
    (Detected /\ fdata = TitleBox(3, LFCR, 3, AsciiKillingMoon, 3, LFCR, AsciiV102))
        => fres = [ok |-> TRUE, game |-> "Under a Killing Moon", version |-> "1.02",
                   language |-> "UNKNOWN"]

\* What the claim says of the box built from these parts.
BoxOutcome(n, e1, a, t, b, e2, ver, post) ==
    LET matched == /\ n >= 1
                   /\ a >= 1
                   /\ b >= 1
                   /\ e1 \in {LFCR, CRLF}
                   /\ e2 \in {LFCR, CRLF}
        exact   == b = 1 /\ t \in {AsciiKillingMoon, AsciiPandora}
    IN  IF matched /\ exact
        THEN /\ fres.ok
             /\ fres.game = (IF t = AsciiKillingMoon THEN "Under a Killing Moon"
                             ELSE "The Pandora Directive")
             /\ fres.version = (IF ver = AsciiV102 THEN "1.02" ELSE "1.0")
             /\ fres.language = (IF post = <<>> THEN "UNKNOWN" ELSE "English")
        ELSE fres = DetectionError

\* C17: detect_version raises when the title box has no match (no bar, no
\* space before or after the title, a line end that is neither LF CR nor
\* CR LF) and when the captured title is not exactly one of the two
\* supported titles; otherwise it returns the title and the version, with
\* either line end between the lines, and the language is "UNKNOWN" when
\* the language string is missing.
C17_DetectOutcomes ==
    Detected =>
        \A pre \in {<<>>, <<0, 218>>}, n \in {0, 1, 3}, e1 \in {LFCR, CRLF, <<10>>} :
            LET top == pre \o <<218>> \o Bytes(196, n) \o <<191>> \o e1 \o <<179>>
            IN  Lit(fdata, 0, top) =>
                \A a \in 0..MaxPad, t \in BoxTitles, b \in 0..MaxPad,
                   e2 \in {LFCR, CRLF, <<10>>} :
                    LET mid == Bytes(32, a) \o t \o Bytes(32, b) \o <<179>> \o e2
                    IN  Lit(fdata, Len(top), mid) =>
                        \A ver \in {AsciiV102, AsciiV10},
                           post \in {<<>>, LanguageString} :
                            (fdata = pre \o TitleBox(n, e1, a, t, b, e2, ver) \o post)
                                => BoxOutcome(n, e1, a, t, b, e2, ver, post)

\* A box that matches, with CR LF after the top line, whose title is not
\* supported; and (next definition) one that is detected, without language.
C17_Witness ==
    /\ Detected
    /\ fdata = TitleBox(1, CRLF, 1, AsciiOverseer, 1, LFCR, AsciiV10)
    /\ fres = DetectionError

C17_Detected ==
    /\ Detected
    /\ fdata = <<0, 218>> \o TitleBox(3, CRLF, 3, AsciiPandora, 1, CRLF, AsciiV102)
    /\ fres = [ok |-> TRUE, game |-> "The Pandora Directive", version |-> "1.02",
               language |-> "UNKNOWN"]

----------------------------------------------------------------------------
(* Claims about the decoder, checked under SpecCodec                       *)

\* The bytes of scenario S2: 07 10 34 12 03 ef be ad de
ScenarioS2 == <<7, 16, 52, 18, 3, 239, 190, 173, 222>>

\* The one record with the given data dword
RecordS2(data) ==
    <<FixupTuple("fix_32off_32", 7, 16, 2, 4660, data)>>

\* C18 as stated: the data of the record decoded from S2 is 0xdeadbead
\* (-559038803 as a signed dword), and encoding it gives the bytes back.
C18_ScenarioS2 ==
    (mode = "codec" /\ buffer = ScenarioS2) =>
        /\ stage # "build" => (decoded.ok /\ decoded.items = RecordS2(-559038803))
        /\ stage = "encoded" => (encoded.ok /\ encoded.bytes = buffer)

\* C18 amended: fixups_decode of the 9 bytes of S2 returns exactly one
\* record of kind fix_32off_32 with srcoff 0x1234, objnum 2 and data
\* 0xdeadbeef, the little-endian dword of ef be ad de (-559038737 as a
\* signed dword), and fixups_encode of that list gives the 9 bytes back.
C18_ScenarioS2LittleEndian ==
    (mode = "codec" /\ buffer = ScenarioS2) =>
        /\ stage # "build" => (decoded.ok /\ decoded.items = RecordS2(-559038737))
        /\ stage = "encoded" => (encoded.ok /\ encoded.bytes = buffer)

C18_Witness ==
    /\ mode = "codec"
    /\ buffer = ScenarioS2
    /\ stage = "encoded"
    /\ Len(decoded.items) = 1
    /\ decoded.items[1].data = -559038737
    /\ to_uint32_le(decoded.items[1].data) = <<239, 190, 173, 222>>
    /\ encoded.bytes = ScenarioS2

\* The bytes the claim says a record takes: 5, and its data.
ClaimedLen(src, flags) ==
    5 + (IF src \in {7, 5, 6} THEN (IF (flags \div 16) % 2 = 1 THEN 4 ELSE 2) ELSE 0)

\* The places where the records of buf start by those lengths, up to the
\* first src that is not 7, 5, 6 or 2.
RECURSIVE ClaimedStarts(_, _)
ClaimedStarts(buf, p) ==
    IF p >= Len(buf) THEN <<>>
    ELSE IF At(buf, p) \notin {7, 5, 6, 2} THEN <<p>>
    ELSE <<p>> \o ClaimedStarts(buf, p + ClaimedLen(At(buf, p), At(buf, p + 1)))

ForeignSrc(buf) ==
    \E k \in DOMAIN ClaimedStarts(buf, 0) :
        At(buf, ClaimedStarts(buf, 0)[k]) \notin {7, 5, 6, 2}

\* C19: a stream of whole records decodes to one record per 5 header bytes
\* plus 4, 2 or 0 data bytes by src and flags & 0x10, with data None for
\* src 2; a src byte other than 7, 5, 6, 2 makes the call raise and return
\* no record, whatever came before it; the flags byte never does.
C19_DecodeDispatch ==
    (mode = "codec" /\ stage # "build") =>
        LET starts == ClaimedStarts(buffer, 0)
        IN  IF ForeignSrc(buffer)
            THEN ~decoded.ok /\ decoded.items = <<>>
            ELSE /\ decoded.ok
                 /\ Len(decoded.items) = Len(starts)
                 /\ \A k \in DOMAIN starts :
                       LET r == decoded.items[k]
                           p == starts[k]
                       IN  /\ r.src = At(buffer, p)
                           /\ r.flags = At(buffer, p + 1)
                           /\ to_uint16_le(r.srcoff) = Slice(buffer, p + 2, p + 4)
                           /\ r.objnum = At(buffer, p + 4) - 1
                           /\ r.src = 2 => (r.data = None /\ r.id = "fix_16sel")
                           /\ r.src # 2 => r.id = IdFor(r.src, ClaimedLen(r.src, r.flags) = 9)
                           /\ ClaimedLen(r.src, r.flags) = 7 =>
                                 to_uint16_le(r.data) = Slice(buffer, p + 5, p + 7)
                           /\ ClaimedLen(r.src, r.flags) = 9 =>
                                 to_uint32_le(r.data) = Slice(buffer, p + 5, p + 9)

\* A well-formed record with all flag bits but 0x10 set, then a record
\* whose src is 3: the call has raised and returned nothing.
C19_Witness ==
    /\ mode = "codec"
    /\ stage = "decoded"
    /\ Len(buffer) = 12
    /\ At(buffer, 0) = 6
    /\ At(buffer, 1) = 239
    /\ At(buffer, 7) = 3
    /\ ~decoded.ok
    /\ decoded.items = <<>>

----------------------------------------------------------------------------
(* C20: scenario S5, checked under SpecEngine                              *)

AppliedS5 ==
    /\ mode = "engine"
    /\ le_header.page_size = 4096
    /\ CODE_PATCHES = <<[code |-> MOUSELOOK_CODE, offset |-> MOUSELOOK_OFFSET]>>
    /\ napplied = 1

\* The records of page 0x36 at page offset srcoff
AtS5(srcoff) ==
    {j \in DOMAIN fixup_records[55] : fixup_records[55][j].srcoff = srcoff}

\* C20: once the 28-byte mouselook patch is applied at 0x364c3 with pages
\* of 4096 bytes, page 0x36 holds no record at page offset 0x4c5, and at
\* page offset 0x4ca (0x364c3 + 7) exactly one record: a new fix_32off_32
\* with objnum DATA_OBJ and the dword of payload[7..11) as data.
C20_ScenarioS5 ==
    AppliedS5 =>
        /\ AtS5(1221) = {}
        /\ Cardinality(AtS5(1226)) = 1
        /\ \A j \in AtS5(1226) :
              fixup_records[55][j]
                  = Born(FixupTuple("fix_32off_32", 7, 16, DATA_OBJ, 1226,
                                    from_uint32_le(SubSeq(MOUSELOOK_CODE, 8, 11))), 1)
        /\ 54 * 4096 + 1226 = MOUSELOOK_OFFSET + 7

\* Page 0x36 held fixups at 0x4c5 and 0x4ca; after the patch it holds the
\* one after the patch and the three new ones.
C20_Witness ==
    /\ AppliedS5
    /\ Len(fixup_records[55]) = 4
    /\ fixup_records[55][1] = Probe(1247)
    /\ fixup_records[55][2].data = 127653
    /\ fixup_records[55][2].born = 1
    /\ fixup_records[54] = <<Probe(1221)>>
    /\ SubSeq(page_data, Len(page_data) - 27, Len(page_data)) = MOUSELOOK_CODE


----------------------------------------------------------------------------
(* The order of the catalogue, checked under SpecPatch                     *)

\* The local of patch() that holds an offset, if it is bound.
Has(k, v) == k \in DOMAIN env /\ env[k] = v

\* Which block of patch() appended a code patch.
KindOf(p) ==
    CASE Has("fix_speed_offset", p.offset) -> "speed"
      [] Has("mouselook_offset", p.offset) -> "mouselook"
      [] Has("wasd_offset", p.offset) -> "wasd"
      [] Has("rkey_mod_offset", p.offset) -> "rkey"
      [] Has("crouch_mod_offset", p.offset) -> "crouch"
      [] Has("call1_offset", p.offset) -> "vsync"
      [] Has("call2_offset", p.offset) -> "vsync"
      [] Has("vsync_offset", p.offset) -> "vsync"
      [] Has("abductor_offset", p.offset) -> "remote"
      [] Has("abductor_hoverup_offset", p.offset) -> "remote"
      [] Has("abductor_hoverdown_offset", p.offset) -> "remote"
      [] OTHER -> "unknown"

\* The order as the catalogue is described: the speed fix third.
DescribedOrder ==
    <<"mouselook", "wasd", "speed", "rkey", "crouch", "vsync", "remote">>

\* The order with the speed fix first.
SpeedFirstOrder ==
    <<"speed", "mouselook", "wasd", "rkey", "crouch", "vsync", "remote">>

RankIn(order, kind) == CHOOSE i \in DOMAIN order : order[i] = kind

\* A step of the two loops keeps to the order: the code patch it applies is
\* of no earlier kind than the ones applied before it, and data patches are
\* applied once every code patch has been.
AppliesInOrder(order) ==
    /\ napplied' = napplied + 1 =>
          /\ ndata = 0
          /\ KindOf(CODE_PATCHES[napplied + 1]) # "unknown"
          /\ \A i \in 1..napplied :
                /\ KindOf(CODE_PATCHES[i]) # "unknown"
                /\ RankIn(order, KindOf(CODE_PATCHES[i]))
                       <= RankIn(order, KindOf(CODE_PATCHES[napplied + 1]))
    /\ ndata' = ndata + 1 =>
          /\ napplied = Len(CODE_PATCHES)
          /\ DATA_PATCHES[ndata + 1].code = credit_data

\* C21 as stated: the enabled code patches are applied in the order
\* mouselook, WASD, speed fix, R key, crouch, vsync shim, remote vehicle, and
\* the credit string after all of them.
C21_DescribedOrder == [][mode = "patch" => AppliesInOrder(DescribedOrder)]_vars

\* C21, amended: the enabled code patches are applied in the order speed
\* fix, mouselook, WASD, R key, crouch, vsync shim (its call redirections
\* and the shim), remote vehicle, and the credit string after all of them.
C21_SpeedFixFirst == [][mode = "patch" => AppliesInOrder(SpeedFirstOrder)]_vars

\* Under a Killing Moon with both options on: the seven code patches and the
\* credit string have all been applied.
C21_Witness ==
    /\ mode = "patch"
    /\ game = UAKM
    /\ args.fix_speed
    /\ args.mouselook
    /\ napplied = 7
    /\ ndata = 1
    /\ [i \in 1..7 |-> KindOf(CODE_PATCHES[i])]
           = <<"speed", "mouselook", "wasd", "rkey", "crouch", "vsync", "vsync">>

\* Pandora Directive with both options on: all eleven code patches applied.
C21_WitnessPandora ==
    /\ mode = "patch"
    /\ game = TPD
    /\ napplied = 11
    /\ KindOf(CODE_PATCHES[1]) = "speed"
    /\ KindOf(CODE_PATCHES[11]) = "remote"


----------------------------------------------------------------------------
(* The byte ranges of the code patches, checked under SpecPatch            *)

\* [offset, offset + len(payload))
RangeOf(p) == p.offset .. (p.offset + Len(p.code) - 1)

Overlap(p, q) == RangeOf(p) \cap RangeOf(q) # {}

IsWasd(p) == Has("wasd_offset", p.offset)

IsShim(p) == Has("vsync_offset", p.offset)

----------------------------------------------------------------------------
(* Which patches the flags select, checked under SpecPatch                 *)

\* The catalogue has run to its end without raising.
Selected == mode = "patch" /\ pc \in {"apply", "write", "done"}

\* A code patch is in the list at the site the search for label returns.
PatchAt(label) ==
    \E i \in DOMAIN CODE_PATCHES :
        \E j \in DOMAIN grep_result[label] :
            CODE_PATCHES[i].offset = grep_result[label][j].start

MouselookSites ==
    {"mouselook_offset", "wasd_offset", "rkey_mod_offset", "crouch_mod_offset"}

RemoteSites ==
    {"abductor_offset", "abductor_hoverup_offset", "abductor_hoverdown_offset"}

ShimInList ==
    \E i \in DOMAIN CODE_PATCHES :
        /\ "wasd_mod_end" \in DOMAIN env
        /\ CODE_PATCHES[i].offset = env["wasd_mod_end"]
        /\ SubSeq(CODE_PATCHES[i].code, 1, Len(VSYNC)) = Resolved(VSYNC, env)

HoverNops ==
    \A l \in {"abductor_hoverup_offset", "abductor_hoverdown_offset"} :
        \E i \in DOMAIN CODE_PATCHES :
            /\ CODE_PATCHES[i].offset = grep_result[l][1].start
            /\ CODE_PATCHES[i].code = <<144, 144, 144, 144, 144, 144, 144>>

\* C23: with mouselook set and every search succeeding the list holds the
\* mouselook, WASD, R key, crouch and shim patches; for Pandora Directive
\* also the remote-vehicle rewrite and the two 7-byte hover NOPs, whatever
\* address the six variables resolve to; for Under a Killing Moon none of
\* the three.  With mouselook clear none of these patches is in the list.
C23_FlagSelection ==
    Selected =>
        IF args.mouselook
        THEN /\ \A l \in MouselookSites : PatchAt(l)
             /\ ShimInList
             /\ game = TPD => (\A l \in RemoteSites : PatchAt(l)) /\ HoverNops
             /\ game = UAKM => \A l \in RemoteSites : ~PatchAt(l)
        ELSE /\ \A l \in MouselookSites \cup RemoteSites : ~PatchAt(l)
             /\ Len(CODE_PATCHES) = IF args.fix_speed THEN 1 ELSE 0


----------------------------------------------------------------------------
(* The splice of a payload into the pages, checked under SpecEngine        *)

\* The step has written p within the buffer: the bytes of [o, o + n) are
\* the payload, every other byte and the length are as before.
Spliced(p) ==
    LET o == p.offset
        n == Len(p.code)
    IN  o + n <= Len(page_data) =>
            /\ Len(page_data') = Len(page_data)
            /\ \A i \in 1..Len(page_data) :
                   page_data'[i] = IF i - 1 \in o..(o + n - 1)
                                   THEN p.code[i - o]
                                   ELSE page_data[i]

\* C24: writing a code or data payload of length n at offset o with
\* o + n <= len(pages) replaces exactly the bytes [o, o + n) by the payload
\* and leaves the other bytes and the length of the buffer unchanged; a
\* data patch also leaves every page's fixup list unchanged.
C24_SpliceFrame ==
    [][/\ napplied' = napplied + 1 => Spliced(CODE_PATCHES[napplied + 1])
       /\ ndata' = ndata + 1 =>
             /\ Spliced(DATA_PATCHES[ndata + 1])
             /\ fixup_records' = fixup_records]_vars

\* A code patch at 14 and the data patch at 7 have both been written inside
\* the 48 bytes of the pages.
C24_Witness ==
    /\ mode = "engine"
    /\ napplied = 1
    /\ ndata = 1
    /\ Len(page_data) = 48
    /\ CODE_PATCHES[1].offset = 14
    /\ Len(CODE_PATCHES[1].code) > 4
    /\ SubSeq(page_data, 15, 14 + Len(CODE_PATCHES[1].code)) = CODE_PATCHES[1].code
    /\ DATA_PATCHES[1].offset = 7
    /\ SubSeq(page_data, 8, 10) = DATA_PATCHES[1].code
    /\ page_data[7] = 204
    /\ page_data[11] = 204


----------------------------------------------------------------------------
(* What the removal step leaves in place, checked under SpecEngine         *)

\* list without the elements at the (1-based) indices of J, in order
RECURSIVE Without(_, _, _)
Without(list, J, i) ==
    IF i > Len(list) THEN <<>>
    ELSE (IF i \in J THEN <<>> ELSE <<list[i]>>) \o Without(list, J, i + 1)

\* The records of a list that the n-th code patch did not synthesize.
NotBorn(list, n) == SelectSeq(list, LAMBDA r : r.born # n)

\* C25: the step of the code loop for a patch over [O, O+L) removes a
\* record only if page_index*page_size + srcoff lies in [O, O+L); every
\* other record of every page stays in its list, and the records that stay
\* keep their order, also when several are removed from one page.
C25_RemovalFrame ==
    [][napplied' = napplied + 1 =>
          LET O  == CODE_PATCHES[napplied + 1].offset
              L  == Len(CODE_PATCHES[napplied + 1].code)
              ps == le_header.page_size
          IN  /\ DOMAIN fixup_records' = DOMAIN fixup_records
              /\ \A p \in DOMAIN fixup_records :
                    \E J \in SUBSET DOMAIN fixup_records[p] :
                        /\ \A j \in J :
                              InRange((p - 1) * ps + fixup_records[p][j].srcoff,
                                      O, O + L)
                        /\ NotBorn(fixup_records'[p], napplied + 1)
                               = Without(fixup_records[p], J, 1)
                        /\ SubSeq(fixup_records'[p], 1,
                                  Len(fixup_records[p]) - Cardinality(J))
                               = Without(fixup_records[p], J, 1)]_vars

\* Scenario image: the two records inside the patch are gone from page
\* 0x36, the one behind it and the one of page 0x35 are left.
C25_Witness ==
    /\ mode = "engine"
    /\ napplied = 1
    /\ Len(fixup_records) = ImageS5.pages
    /\ NotBorn(fixup_records[ImageS5.pages], 1) = <<Probe(1247)>>
    /\ fixup_records[ImageS5.pages - 1] = <<Probe(1221)>>


----------------------------------------------------------------------------
(* Termination of the header walk, checked under SpecLocate                *)

\* C26: search_for_le terminates on every input (it returns or raises), and
\* its cursor never moves backwards: the walk does not come back to a
\* cursor it has been at, and a header it returns is not before the start
\* of the buffer.
C26_SearchTerminates ==
    Located => pc \in {"found", "error"} /\ mz_off >= 0


----------------------------------------------------------------------------
(* The page of a synthesized record, checked under SpecEngine              *)

\* The instructions of a payload that get a record.
Relocated(patch) == SelectSeq(Decoder(patch.code), InTable)

\* r is the record of an instruction of the patch, filed under the page and
\* the page offset of the operand at A + k.
FiledAtOperand(r, p, patch) ==
    \E i \in DOMAIN Relocated(patch) :
        LET instr == Relocated(patch)[i]
            a     == patch.offset + instr.ip + TableK(instr)
        IN  /\ p - 1 = a \div le_header.page_size
            /\ r.srcoff = a % le_header.page_size

\* C27: every synthesized record is in the list of the page that holds the
\* operand's address A + k, with srcoff = (A + k) mod page_size < page_size,
\* also when A and A + k lie in different pages; and the page index the loop
\* uses is always a valid index into the page lists (the loop never raises).
C27_RecordInOperandPage ==
    mode = "engine" =>
        /\ pc # "error"
        /\ \A p \in DOMAIN fixup_records : \A j \in DOMAIN fixup_records[p] :
              LET r == fixup_records[p][j]
              IN  r.born >= 1 =>
                      /\ r.srcoff < le_header.page_size
                      /\ FiledAtOperand(r, p, CODE_PATCHES[r.born])


----------------------------------------------------------------------------
(* Surviving records and the bytes a patch writes, checked under SpecEngine *)

\* The four bytes a 32-bit offset record at absolute address a relocates.
FieldOf(a) == a .. (a + 3)

\* C28: once a code patch over [O, O+L) is applied, no record left from the
\* original set relocates a byte the patch has written: for a surviving
\* 32-bit offset record at address a, [a, a+4) and [O, O+L) are disjoint.
C28_NoSurvivorTouchesPatch ==
    (mode = "engine" /\ pc = "apply" /\ napplied >= 1) =>
        \A p \in DOMAIN fixup_records : \A j \in DOMAIN fixup_records[p] :
            LET r == fixup_records[p][j]
                a == (p - 1) * le_header.page_size + r.srcoff
            IN  (r.born = 0 /\ r.src = 7) =>
                    FieldOf(a) \cap RangeOf(LastPatch) = {}


----------------------------------------------------------------------------
(* The header fields the writer leaves alone, checked under SpecPatch      *)

\* The fields lines 1387-1404 assign.
WrittenFields ==
    {"fixup_record_table_offset", "fixup_section_size", "fixup_section_csum",
     "import_module_table_offset", "import_proc_table_offset", "data_pages_offset"}

\* C29: every header field of the written file other than the six the
\* writer assigns has the value it has in the input, however much the fixup
\* section has grown or shrunk.
C29_HeaderFrame ==
    Done => \A n \in FieldNames \ WrittenFields : OutHeader[n] = InHeader[n]

\* A run whose fixup section grew: the data pages have moved, the offsets
\* the writer does not assign have not.
C29_Witness ==
    /\ Done
    /\ napplied >= 7
    /\ OutHeader.fixup_section_size > InHeader.fixup_section_size
    /\ OutHeader.data_pages_offset > InHeader.data_pages_offset
    /\ OutHeader.per_page_csum_offset = InHeader.per_page_csum_offset
    /\ OutHeader.nonres_name_table_offset = InHeader.nonres_name_table_offset
    /\ OutHeader.module_num_pages = NumPages + 1

\* A run whose fixup section shrank (slack that the input had is gone).
C29_WitnessShrunk ==
    /\ Done
    /\ OutHeader.fixup_section_size < InHeader.fixup_section_size
    /\ OutHeader.data_pages_offset < InHeader.data_pages_offset
    /\ OutHeader.debug_info_offset = InHeader.debug_info_offset


----------------------------------------------------------------------------
(* The shim and the gap behind the WASD block, checked under SpecPatch     *)

\* C30: the shim is placed at wasd_mod_end, the address after the WASD
\* block's trailing jump, and ends at or before wasd_rejoin, and
\* wasd_mod_end <= wasd_rejoin, so that neither the WASD patch nor the shim
\* writes a byte at or after wasd_rejoin, for every pair of offsets the two
\* WASD searches return.
C30_ShimInsideGap ==
    mode = "patch" =>
        \A i \in DOMAIN CODE_PATCHES :
            LET p == CODE_PATCHES[i]
            IN  /\ IsWasd(p) =>
                      /\ env["wasd_mod_end"] <= env["wasd_rejoin"]
                      /\ p.offset + Len(p.code) <= env["wasd_rejoin"]
                /\ IsShim(p) =>
                      /\ p.offset = env["wasd_mod_end"]
                      /\ p.offset + Len(p.code) <= env["wasd_rejoin"]

====
